---------------------------- MODULE Spec2Model ----------------------------
(***************************************************************************)
(* Model of the numerical core of Comparativo-Euler-Runge-Kutta: the time  *)
(* grid builders, the Euler and RK4 integrators, the error metrics and the *)
(* two solve entry points (_run_full_solve, solve_benchmark).              *)
(*                                                                         *)
(* Numbers.  A time value is an integer number of ticks, one tick being    *)
(* 1e-13: the two tolerances of build_time_grid (1e-12 and 1e-8) are then  *)
(* the integers LoopTol and SnapTol and a step below the tolerance is      *)
(* representable.  A float that can be NaN (a y value, an error, a metric) *)
(* is a record [k, v]: Num(v) is the finite value v, NaN is not-a-number   *)
(* and None is Python's None.  Arithmetic on ticks is exact, so the model  *)
(* leaves out the rounding of a float addition.                           *)
(***************************************************************************)
EXTENDS Integers, Sequences, FiniteSets

VARIABLES
    op,          \* the operation this behaviour runs
    pc,          \* its position: "call", a stage name, "done" or "failed"
    args,        \* the inputs of the operation
    res,         \* what the operation returned or raised
    loc          \* the local variables of a solve entry point

vars == <<op, pc, args, res, loc>>

---------------------------------------------------------------------------
(* Program constants, in ticks *)

\* T_tol = T + 1e-12
LoopTol == 10
\* abs(grid[-1] - T) > 1e-8
SnapTol == 100000

(* Bounds of the model *)

\* the longest list handed to the error metrics
MaxLen == 3

\* math.exp is computed to 1/ExpScale, from at most ExpTerms terms of its series
ExpScale == 10000
ExpTerms == 25

\* the largest max_points a call is given; the source's default is 5000
\* (grid.py line 5) and every caller uses the default: the model scales the
\* default down to CapPoints so that grids stay small
CapPoints == 22

---------------------------------------------------------------------------
(* Floats and Python values *)

Num(v) == [k |-> "num", v |-> v]
NaN == [k |-> "nan", v |-> 0]
None == [k |-> "none", v |-> 0]

IsNum(x) == x.k = "num"
IsNaN(x) == x.k = "nan"
IsNone(x) == x.k = "none"

Abs(n) == IF n < 0 THEN -n ELSE n

\* int(x / d) for d > 0: Python's int() truncates toward zero
IntDiv(x, d) == IF x >= 0 THEN x \div d ELSE -((-x) \div d)

\* int(round(x / d)) for d > 0: Python's round() rounds half to even
RoundDiv(x, d) ==
    LET q == x \div d
        r == x % d
    IN  IF 2 * r < d THEN q
        ELSE IF 2 * r > d THEN q + 1
        ELSE IF q % 2 = 0 THEN q ELSE q + 1

---------------------------------------------------------------------------
(* app/core/grid.py *)

Raised(kind) == [status |-> kind, grid |-> <<>>]
Returned(g) == [status |-> "ok", grid |-> g]

\* while t < T_tol: grid.append(t); t += h
RECURSIVE grid_loop(_, _, _, _)
grid_loop(grid, t, h, T_tol) ==
    IF t < T_tol THEN grid_loop(Append(grid, t), t + h, h, T_tol) ELSE grid

\* mutants of snap_last: the endpoint is never appended; always appended
snap_last_never(grid, T) == grid
snap_last_always(grid, T) == Append(grid, T)

\* if abs(grid[-1] - T) > 1e-8: grid.append(T)
snap_last(grid, T) ==
    IF Abs(grid[Len(grid)] - T) > SnapTol THEN Append(grid, T) ELSE grid

n_estimated(t0, T, h) == IntDiv(T - t0, h) + 2

\* mutant of build_time_grid: the domain is checked before the step
build_time_grid_domain_first(t0, T, h, max_points) ==
    IF T <= t0 THEN Raised("InvalidDomain")
    ELSE IF h <= 0 THEN Raised("InvalidStep")
    ELSE IF n_estimated(t0, T, h) > max_points THEN Raised("GridTooLarge")
    ELSE Returned(snap_last(grid_loop(<<>>, t0, h, T + LoopTol), T))

build_time_grid(t0, T, h, max_points) ==
    IF h <= 0 THEN Raised("InvalidStep")
    ELSE IF T <= t0 THEN Raised("InvalidDomain")
    ELSE IF n_estimated(t0, T, h) > max_points THEN Raised("GridTooLarge")
    ELSE Returned(snap_last(grid_loop(<<>>, t0, h, T + LoopTol), T))

---------------------------------------------------------------------------
(* The right-hand side f, a callable the integrators are handed *)

\* ticks per unit of time: f gives a slope per unit of time, and the model
\* takes 1e-8 as its unit of time
TimeUnit == SnapTol

\* f(x, y) = lam * y + mu * x + c, x given in half ticks so that x + h/2 is
\* exact; the slope is rounded to the model's precision
ApplyF(f, x2, y) == f.lam * y + RoundDiv(f.mu * x2, 2 * TimeUnit) + f.c

RECURSIVE GCD(_, _)
GCD(a, b) == IF b = 0 THEN a ELSE GCD(b, a % b)

\* a * n / d for d > 0, rounded to the model's precision; the fraction n / d
\* is reduced first to keep the product small
MulDivRound(a, n, d) ==
    LET g == GCD(Abs(n), d)
    IN  RoundDiv(a * (n \div g), d \div g)

\* h * k for a step h in ticks and a slope k per unit of time, divided by den
\* (1, 2 or 6)
StepMul(h, k, den) == MulDivRound(k, h, den * TimeUnit)

---------------------------------------------------------------------------
(* app/domain/numerics/euler.py, rk4.py: the round-based construction *)

SolveRaised(kind) == [status |-> kind, exc |-> "ValueError", xs |-> <<>>, ys |-> <<>>]
SolveReturned(xs, ys) == [status |-> "ok", exc |-> "none", xs |-> xs, ys |-> ys]

\* n_steps = int(round((x_end - x0) / h))
n_steps_of(x0, x_end, h) == RoundDiv(x_end - x0, h)

\* mutant of euler_step: the slope is averaged with the slope at the end of
\* the step (Heun's method, of order 2)
euler_step_heun(f, x, y, h) ==
    LET k1 == ApplyF(f, 2 * x, y)
        k2 == ApplyF(f, 2 * x + 2 * h, y + StepMul(h, k1, 1))
    IN  y + StepMul(h, k1 + k2, 2)

\* one explicit Euler step of size h from (x, y): y + h * f(x, y)
euler_step(f, x, y, h) == y + StepMul(h, ApplyF(f, 2 * x, y), 1)

\* for k in range(n_steps): y = y + h * f(x, y); x = x0 + (k + 1) * h
RECURSIVE euler_loop(_, _, _, _, _, _, _, _)
euler_loop(f, x0, h, n_steps, k, x, y, acc) ==
    IF k >= n_steps THEN acc
    ELSE LET y1 == euler_step(f, x, y, h)
             x1 == x0 + (k + 1) * h
         IN  euler_loop(f, x0, h, n_steps, k + 1, x1, y1,
                        [xs |-> Append(acc.xs, x1), ys |-> Append(acc.ys, Num(y1))])

\* mutant of euler_solve: the step count is truncated, so Euler rejects spans
\* of more than half a step and less than a step, which RK4 accepts
euler_solve_truncating(f, x0, y0, h, x_end) ==
    IF h <= 0 THEN SolveRaised("InvalidStep")
    ELSE IF IntDiv(x_end - x0, h) <= 0 THEN SolveRaised("InvalidDomain")
    ELSE LET r == euler_loop(f, x0, h, IntDiv(x_end - x0, h), 0, x0, y0,
                             [xs |-> <<x0>>, ys |-> <<Num(y0)>>])
         IN  SolveReturned(r.xs, r.ys)

euler_solve(f, x0, y0, h, x_end) ==
    IF h <= 0 THEN SolveRaised("InvalidStep")
    ELSE IF n_steps_of(x0, x_end, h) <= 0 THEN SolveRaised("InvalidDomain")
    ELSE LET r == euler_loop(f, x0, h, n_steps_of(x0, x_end, h), 0, x0, y0,
                             [xs |-> <<x0>>, ys |-> <<Num(y0)>>])
         IN  SolveReturned(r.xs, r.ys)

\* mutant of rk4_step: the four slopes are averaged with equal weights
rk4_step_unweighted(f, x, y, h) ==
    LET k1 == ApplyF(f, 2 * x, y)
        k2 == ApplyF(f, 2 * x + h, y + StepMul(h, k1, 2))
        k3 == ApplyF(f, 2 * x + h, y + StepMul(h, k2, 2))
        k4 == ApplyF(f, 2 * x + 2 * h, y + StepMul(h, k3, 1))
    IN  y + StepMul(h, k1 + k2 + k3 + k4, 4)

\* one classical RK4 step of size h from (x, y)
rk4_step(f, x, y, h) ==
    LET k1 == ApplyF(f, 2 * x, y)
        k2 == ApplyF(f, 2 * x + h, y + StepMul(h, k1, 2))
        k3 == ApplyF(f, 2 * x + h, y + StepMul(h, k2, 2))
        k4 == ApplyF(f, 2 * x + 2 * h, y + StepMul(h, k3, 1))
    IN  y + StepMul(h, k1 + 2 * k2 + 2 * k3 + k4, 6)

RECURSIVE rk4_loop(_, _, _, _, _, _, _, _)
rk4_loop(f, x0, h, n_steps, k, x, y, acc) ==
    IF k >= n_steps THEN acc
    ELSE LET y1 == rk4_step(f, x, y, h)
             x1 == x0 + (k + 1) * h
         IN  rk4_loop(f, x0, h, n_steps, k + 1, x1, y1,
                      [xs |-> Append(acc.xs, x1), ys |-> Append(acc.ys, Num(y1))])

\* mutant of rk4_solve: the step count is truncated, not rounded
rk4_solve_truncating(f, x0, y0, h, x_end) ==
    IF h <= 0 THEN SolveRaised("InvalidStep")
    ELSE IF IntDiv(x_end - x0, h) <= 0 THEN SolveRaised("InvalidDomain")
    ELSE LET r == rk4_loop(f, x0, h, IntDiv(x_end - x0, h), 0, x0, y0,
                           [xs |-> <<x0>>, ys |-> <<Num(y0)>>])
         IN  SolveReturned(r.xs, r.ys)

rk4_solve(f, x0, y0, h, x_end) ==
    IF h <= 0 THEN SolveRaised("InvalidStep")
    ELSE IF n_steps_of(x0, x_end, h) <= 0 THEN SolveRaised("InvalidDomain")
    ELSE LET r == rk4_loop(f, x0, h, n_steps_of(x0, x_end, h), 0, x0, y0,
                           [xs |-> <<x0>>, ys |-> <<Num(y0)>>])
         IN  SolveReturned(r.xs, r.ys)

(* app/services/solver_service.py *)

\* _build_grid raises HTTPException(400) where the integrators raise ValueError
_build_grid(x0, x_end, h) ==
    IF h <= 0 THEN [status |-> "InvalidStep", exc |-> "HTTP400", xs |-> <<>>, ys |-> <<>>]
    ELSE IF n_steps_of(x0, x_end, h) <= 0
         THEN [status |-> "InvalidDomain", exc |-> "HTTP400", xs |-> <<>>, ys |-> <<>>]
    ELSE SolveReturned([i \in 1..(n_steps_of(x0, x_end, h) + 1) |-> x0 + (i - 1) * h], <<>>)

---------------------------------------------------------------------------
(* app/services/error_metrics.py *)

\* Optional[List[float]]: NoList is None, SomeList(l) a list
NoList == [some |-> FALSE, list |-> <<>>]
SomeList(l) == [some |-> TRUE, list |-> l]

\* Optional[Dict]: NoDict is None
NoDict == [some |-> FALSE, max |-> None, rmse |-> None]
SomeDict(mx, rm) == [some |-> TRUE, max |-> mx, rmse |-> rm]

\* abs(a - e): a TypeError when an operand is None, NaN when one is NaN
CanSubtract(a, e) == ~IsNone(a) /\ ~IsNone(e)
AbsDiff(a, e) == IF IsNaN(a) \/ IsNaN(e) THEN NaN ELSE Num(Abs(a.v - e.v))

\* if e != e: nan else: abs(a - e)      (None != None is False)
error_at(a, e) == IF IsNaN(e) THEN NaN ELSE AbsDiff(a, e)
raises_at(a, e) == ~IsNaN(e) /\ ~CanSubtract(a, e)

\* mutant of error_list: an entry whose reference is NaN is dropped
error_list_dropping_nan(approx, exact) ==
    SelectSeq([i \in 1..Len(approx) |-> error_at(approx[i], exact[i])],
              LAMBDA e : ~IsNaN(e))

\* for a, e in zip(approx, exact): errors.append(...)
error_list(approx, exact) ==
    [i \in 1..Len(approx) |-> error_at(approx[i], exact[i])]

\* mutant of absolute_errors: the test 'exact is None' is missing, len(None) raises
absolute_errors_without_none_test(approx, exact) ==
    IF ~exact.some \/ (\E i \in 1..Len(approx) : Len(approx) = Len(exact.list)
                                                  /\ raises_at(approx[i], exact.list[i]))
    THEN [status |-> "TypeError", exc |-> "TypeError", value |-> NoList]
    ELSE IF Len(approx) # Len(exact.list)
    THEN [status |-> "LengthMismatch", exc |-> "ValueError", value |-> NoList]
    ELSE [status |-> "ok", exc |-> "none", value |-> SomeList(error_list(approx, exact.list))]

absolute_errors(approx, exact) ==
    IF ~exact.some THEN [status |-> "ok", exc |-> "none", value |-> NoList]
    ELSE IF Len(approx) # Len(exact.list)
    THEN [status |-> "LengthMismatch", exc |-> "ValueError", value |-> NoList]
    ELSE IF \E i \in 1..Len(approx) : raises_at(approx[i], exact.list[i])
    THEN [status |-> "TypeError", exc |-> "TypeError", value |-> NoList]
    ELSE [status |-> "ok", exc |-> "none", value |-> SomeList(error_list(approx, exact.list))]

\* valid = [e for e in errs if not math.isnan(e)]
valid_errors(errs) == SelectSeq(errs, LAMBDA e : ~IsNaN(e))

RECURSIVE max_of(_)
max_of(xs) ==
    IF Len(xs) = 1 THEN xs[1].v
    ELSE LET m == max_of(Tail(xs)) IN IF xs[1].v >= m THEN xs[1].v ELSE m

RECURSIVE sum_squares(_)
sum_squares(xs) ==
    IF xs = <<>> THEN 0 ELSE xs[1].v * xs[1].v + sum_squares(Tail(xs))

\* math.sqrt rounded down to the model's precision
RECURSIVE sqrt_between(_, _, _)
sqrt_between(n, lo, hi) ==
    IF lo >= hi THEN lo
    ELSE LET mid == (lo + hi + 1) \div 2
         IN  IF mid * mid <= n THEN sqrt_between(n, mid, hi)
             ELSE sqrt_between(n, lo, mid - 1)
sqrt_floor(n) == sqrt_between(n, 0, IF n < 46340 THEN n ELSE 46340)

\* sqrt(num / den), rounded down: floor(sqrt(q)) = floor(sqrt(floor(q)))
sqrt_ratio(num, den) == sqrt_floor(num \div den)

\* mutant of summary_of: the squares are averaged over all entries, NaN included
summary_of_mean_over_all(errs) ==
    LET valid == valid_errors(errs)
    IN  IF valid = <<>> THEN SomeDict(None, None)
        ELSE SomeDict(Num(max_of(valid)),
                      Num(sqrt_ratio(sum_squares(valid), Len(errs))))

\* the summary of a list of pointwise errors
summary_of(errs) ==
    LET valid == valid_errors(errs)
    IN  IF valid = <<>> THEN SomeDict(None, None)
        ELSE SomeDict(Num(max_of(valid)),
                      Num(sqrt_ratio(sum_squares(valid), Len(valid))))

summary_error_metrics(approx, exact) ==
    IF ~exact.some THEN [status |-> "ok", exc |-> "none", value |-> NoDict]
    ELSE LET errs == absolute_errors(approx, exact)
         IN  IF errs.status # "ok"
             THEN [status |-> errs.status, exc |-> errs.exc, value |-> NoDict]
             ELSE IF ~errs.value.some THEN [status |-> "ok", exc |-> "none", value |-> NoDict]
             ELSE [status |-> "ok", exc |-> "none", value |-> summary_of(errs.value.list)]

---------------------------------------------------------------------------
(* app/domain/equations.py *)

\* math.exp(znum / zden), as a multiple of 1/ExpScale
RECURSIVE exp_series(_, _, _, _, _)
exp_series(znum, zden, k, term, acc) ==
    IF term = 0 \/ k > ExpTerms THEN acc
    ELSE LET next == MulDivRound(term, znum, zden * k)
         IN  exp_series(znum, zden, k + 1, next, acc + next)
exp_fixed(znum, zden) == exp_series(znum, zden, 1, ExpScale, ExpScale)

\* exp_growth: f(x, y) = lam * y, analytic(x) = y0 * exp(lam * (x - x0))
exp_growth_f(lam) == [lam |-> lam, mu |-> 0, c |-> 0]
exp_growth_analytic(lam, x0, y0, x) ==
    MulDivRound(y0, exp_fixed(lam * (x - x0), TimeUnit), ExpScale)

(* app/services/comparison_service.py *)

\* SimpleError(max, rmse), or the ValueError of a length mismatch
compute_pointwise_errors(y_num, y_ref) ==
    IF Len(y_num) # Len(y_ref)
    THEN [status |-> "LengthMismatch", exc |-> "ValueError", max |-> 0, rmse |-> 0]
    ELSE IF Len(y_num) = 0 THEN [status |-> "ok", exc |-> "none", max |-> 0, rmse |-> 0]
    ELSE LET errors == [i \in 1..Len(y_num) |-> Num(Abs(y_num[i].v - y_ref[i].v))]
         IN  [status |-> "ok", exc |-> "none", max |-> max_of(errors),
              rmse |-> sqrt_ratio(sum_squares(errors), Len(y_num))]

---------------------------------------------------------------------------
(* app/services/euler_solver.py, rk4_solver.py: integrators over build_time_grid *)

\* max_points is never passed by a caller: the default applies
DefaultMaxPoints == CapPoints

Floats(ys) == [i \in 1..Len(ys) |-> Num(ys[i])]

\* for i in range(len(grid) - 1): y_next = y_n + h_n * f(t_n, y_n)
RECURSIVE euler_steps(_, _, _, _)
euler_steps(f_num, grid, i, y_values) ==
    IF i > Len(grid) - 1 THEN y_values
    ELSE LET t_n == grid[i]
             y_n == y_values[Len(y_values)]
             h_n == grid[i + 1] - grid[i]
         IN  euler_steps(f_num, grid, i + 1, Append(y_values, euler_step(f_num, t_n, y_n, h_n)))

euler_solver(f_num, t0, y0, T, h) ==
    LET g == build_time_grid(t0, T, h, DefaultMaxPoints)
    IN  IF g.status # "ok"
        THEN [status |-> g.status, exc |-> "ValueError", grid |-> <<>>, ys |-> <<>>]
        ELSE [status |-> "ok", exc |-> "none", grid |-> g.grid,
              ys |-> Floats(euler_steps(f_num, g.grid, 1, <<y0>>))]

RECURSIVE rk4_steps(_, _, _, _)
rk4_steps(f_num, grid, i, y_values) ==
    IF i > Len(grid) - 1 THEN y_values
    ELSE LET t_n == grid[i]
             y_n == y_values[Len(y_values)]
             h_n == grid[i + 1] - grid[i]
         IN  rk4_steps(f_num, grid, i + 1, Append(y_values, rk4_step(f_num, t_n, y_n, h_n)))

rk4_solver(f_num, t0, y0, T, h) ==
    LET g == build_time_grid(t0, T, h, DefaultMaxPoints)
    IN  IF g.status # "ok"
        THEN [status |-> g.status, exc |-> "ValueError", grid |-> <<>>, ys |-> <<>>]
        ELSE [status |-> "ok", exc |-> "none", grid |-> g.grid,
              ys |-> Floats(rk4_steps(f_num, g.grid, 1, <<y0>>))]

(* app/services/analytic_solver.py *)

\* What sympy answers is an input: sol.status is "failed" when dsolve raises
\* or returns no right-hand side, and otherwise y_exact(t) is the line
\* y0 + sol.slope * (t - t0) except at the grid indices sol.poles, where the
\* evaluation raises or is not finite.
\* val = float(y_exact_num(ti)); not finite or an exception: val = None
exact_value(sol, t0, y0, grid, i) ==
    IF i \in sol.poles THEN None
    ELSE Num(y0 + StepMul(grid[i] - t0, sol.slope, 1))

analytic_solver(sol, t0, y0, T, h) ==
    LET g == build_time_grid(t0, T, h, DefaultMaxPoints)
    IN  IF g.status # "ok"
        THEN [status |-> g.status, exc |-> "ValueError", grid |-> <<>>,
              exact_values |-> NoList, analytic_status |-> "none"]
        ELSE IF sol.status = "failed"
        THEN [status |-> "ok", exc |-> "none", grid |-> g.grid,
              exact_values |-> NoList, analytic_status |-> "failed"]
        ELSE [status |-> "ok", exc |-> "none", grid |-> g.grid,
              exact_values |->
                  SomeList([i \in 1..Len(g.grid) |-> exact_value(sol, t0, y0, g.grid, i)]),
              analytic_status |-> "ok"]

---------------------------------------------------------------------------
(* Inputs *)

GridT0 == {0, 7}
GridSpan == {-5, 0, 1, 3, 10, 25, 99999, 100000, 100001, 250000, 500000, 750000}
GridH == {-1, 0, 1, 3, 7, 100000, 100001, 120000, 300000}
GridMaxPoints == {2, 3, 5, CapPoints}

\* the callables f: y' = y, y' = -2y, y' = 3, y' = x - y
Fs == { [lam |-> 1, mu |-> 0, c |-> 0], [lam |-> -2, mu |-> 0, c |-> 0],
        [lam |-> 0, mu |-> 0, c |-> 3], [lam |-> -1, mu |-> 1, c |-> 0] }

RoundX0 == {0, 7}
\* <<x_end - x0, h>>: exact multiples, remainders below, at and above half
\* a step, a span shorter than half a step, an empty and a reversed domain,
\* a non-positive step
RoundCases ==
    { <<10, 3>>, <<10, 4>>, <<10, 5>>, <<12, 3>>, <<14, 4>>, <<1, 3>>, <<2, 3>>,
      <<0, 3>>, <<-6, 3>>, <<10, 0>>, <<10, -2>>,
      <<100000, 100000>>, <<300000, 100000>>, <<500000, 200000>>,
      <<700000, 200000>>, <<500000, 300000>>, <<700000, 300000>>,
      <<1000000, 100000>>, <<500000, 1500000>>, <<-200000, 100000>> }
RoundOps == {"euler_solve", "rk4_solve", "_build_grid"}

\* the lists the error metrics are called with
RECURSIVE SeqsUpTo(_, _)
SeqsUpTo(S, n) ==
    IF n = 0 THEN {<<>>}
    ELSE LET shorter == SeqsUpTo(S, n - 1)
         IN  shorter \cup {Append(q, x) : q \in {r \in shorter : Len(r) = n - 1}, x \in S}

ApproxValues == {Num(1), Num(5), NaN}
ExactValues == {Num(1), Num(2), NaN, None}
MetricOps == {"absolute_errors", "summary_error_metrics"}
NoMetric == [status |-> "none", exc |-> "none"]

NoLoc == [stage |-> "none"]

NoRes == [status |-> "none", grid |-> <<>>]
NoSolve == [status |-> "none", exc |-> "none", xs |-> <<>>, ys |-> <<>>]

InitGrid ==
    /\ op = "build_time_grid"
    /\ pc = "call"
    /\ \E t0 \in GridT0, d \in GridSpan, h \in GridH, m \in GridMaxPoints :
         args = [t0 |-> t0, T |-> t0 + d, h |-> h, max_points |-> m]
    /\ res = NoRes
    /\ loc = NoLoc

\* _build_grid is run in one step; euler_solve and rk4_solve are run
\* statement by statement, see InitLoop
InitRound ==
    /\ op = "_build_grid"
    /\ pc = "call"
    /\ \E f \in Fs, x0 \in RoundX0, c \in RoundCases :
         args = [f |-> f, x0 |-> x0, y0 |-> 100, h |-> c[2], x_end |-> x0 + c[1]]
    /\ res = NoSolve
    /\ loc = NoLoc

InitMetrics ==
    /\ op \in MetricOps
    /\ pc = "call"
    /\ \E a \in SeqsUpTo(ApproxValues, MaxLen),
          e \in {NoList} \cup {SomeList(l) : l \in SeqsUpTo(ExactValues, MaxLen)} :
         args = [approx |-> a, exact |-> e]
    /\ res = NoMetric
    /\ loc = NoLoc

CallMetrics ==
    /\ op \in MetricOps
    /\ pc = "call"
    /\ res' = IF op = "absolute_errors" THEN absolute_errors(args.approx, args.exact)
              ELSE summary_error_metrics(args.approx, args.exact)
    /\ pc' = IF res'.status = "ok" THEN "done" ELSE "failed"
    /\ UNCHANGED <<op, args, loc>>

CallBuildTimeGrid ==
    /\ op = "build_time_grid"
    /\ pc = "call"
    /\ res' = build_time_grid(args.t0, args.T, args.h, args.max_points)
    /\ pc' = IF res'.status = "ok" THEN "done" ELSE "failed"
    /\ UNCHANGED <<op, args, loc>>

CallRound ==
    /\ op = "_build_grid"
    /\ pc = "call"
    /\ res' = _build_grid(args.x0, args.x_end, args.h)
    /\ pc' = IF res'.status = "ok" THEN "done" ELSE "failed"
    /\ UNCHANGED <<op, args, loc>>

---------------------------------------------------------------------------
(* app/api/v1/routes_errors.py: _run_full_solve, one action per statement *)

\* ErrorAnalysisRequest: h is validated gt=0 before the handler runs.
\* <<T - t0, h>>: exact multiples, a shortened last step, a step below the
\* loop tolerance, an empty and a reversed domain, estimates around the cap
FullCases ==
    { <<300000, 100000>>, <<500000, 200000>>, <<250000, 100000>>, <<5, 1>>, <<3, 3>>,
      <<20, 1>>, <<0, 100000>>, <<-100000, 100000>>, <<600000, 100000>>,
      <<200000, 10000>>, <<210000, 10000>> }
FullFs == { [lam |-> 1, mu |-> 0, c |-> 0], [lam |-> 0, mu |-> 0, c |-> 3] }
\* parse_rhs: the expression parses, is no expression, or uses another symbol
ParseOutcomes == {"ok", "syntax", "symbol"}
\* what sympy answers for the equation
AllIdx == 1..(2 * CapPoints + LoopTol)
Sols == { [status |-> "failed", slope |-> 0, poles |-> {}],
          [status |-> "ok", slope |-> 3, poles |-> {}],
          [status |-> "ok", slope |-> 3, poles |-> {2}],
          [status |-> "ok", slope |-> 1, poles |-> AllIdx] }

FullLoc0 ==
    [stage |-> "start", grid_e |-> <<>>, y_euler |-> <<>>, grid_rk |-> <<>>, y_rk4 |-> <<>>,
     grid_a |-> <<>>, exact_values |-> NoList, analytic_status |-> "none",
     errors_euler |-> NoList, errors_rk4 |-> NoList,
     metrics_euler |-> NoDict, metrics_rk4 |-> NoDict]

NoResponse == [http |-> 0, detail |-> "none"]

\* the handlers that take f as a string in t and y: _run_full_solve of
\* routes_errors.py and solve_euler of routes_euler.py
V1Ops == {"_run_full_solve", "solve_euler"}

InitFull ==
    /\ op \in V1Ops
    /\ pc = "call"
    /\ \E c \in FullCases, f \in FullFs, p \in ParseOutcomes, sol \in Sols :
         args = [parse |-> p, f |-> f, sol |-> sol, t0 |-> 0, y0 |-> 100,
                 T |-> c[1], h |-> c[2]]
    /\ res = NoResponse
    /\ loc = FullLoc0

\* except ValueError: 422; except Exception: 500
HttpOf(exc) == IF exc = "ValueError" THEN 422 ELSE 500

FullFail(exc, detail) ==
    /\ pc' = "failed"
    /\ res' = [http |-> HttpOf(exc), detail |-> detail]

\* mutant of FS_Parse: parse_rhs does not test the free symbols
FS_Parse_without_symbol_test ==
    /\ op \in V1Ops /\ pc = "call"
    /\ IF args.parse \in {"ok", "symbol"}
       THEN pc' = "euler" /\ UNCHANGED res
       ELSE FullFail("ValueError", "ParseError")
    /\ UNCHANGED <<op, args, loc>>

\* f_sym, f_num = parse_rhs(request.f)
FS_Parse ==
    /\ op \in V1Ops /\ pc = "call"
    /\ IF args.parse = "ok"
       THEN pc' = "euler" /\ UNCHANGED res
       ELSE FullFail("ValueError", "ParseError")
    /\ UNCHANGED <<op, args, loc>>

\* grid_e, y_euler = euler_solver(...)
FS_Euler ==
    /\ op \in V1Ops /\ pc = "euler"
    /\ LET r == euler_solver(args.f, args.t0, args.y0, args.T, args.h)
       IN  IF r.status = "ok"
           THEN /\ loc' = [loc EXCEPT !.stage = "euler", !.grid_e = r.grid, !.y_euler = r.ys]
                /\ pc' = IF op = "solve_euler" THEN "respond" ELSE "rk4"
                /\ UNCHANGED res
           ELSE FullFail(r.exc, r.status) /\ UNCHANGED loc
    /\ UNCHANGED <<op, args>>

\* grid_rk, y_rk4 = rk4_solver(...); if len(grid_e) != len(grid_rk): raise RuntimeError
FS_RK4 ==
    /\ op = "_run_full_solve" /\ pc = "rk4"
    /\ LET r == rk4_solver(args.f, args.t0, args.y0, args.T, args.h)
       IN  IF r.status # "ok" THEN FullFail(r.exc, r.status) /\ UNCHANGED loc
           ELSE /\ loc' = [loc EXCEPT !.stage = "rk4", !.grid_rk = r.grid, !.y_rk4 = r.ys]
                /\ IF Len(loc.grid_e) # Len(r.grid)
                   THEN FullFail("RuntimeError", "GridMismatch")
                   ELSE pc' = "analytic" /\ UNCHANGED res
    /\ UNCHANGED <<op, args>>

\* grid_a, exact_values, meta_analytic = analytic_solver(...);
\* if len(grid_e) != len(grid_a): raise RuntimeError
FS_Analytic ==
    /\ op = "_run_full_solve" /\ pc = "analytic"
    /\ LET r == analytic_solver(args.sol, args.t0, args.y0, args.T, args.h)
       IN  IF r.status # "ok" THEN FullFail(r.exc, r.status) /\ UNCHANGED loc
           ELSE /\ loc' = [loc EXCEPT !.stage = "analytic", !.grid_a = r.grid,
                                      !.exact_values = r.exact_values,
                                      !.analytic_status = r.analytic_status]
                /\ IF Len(loc.grid_e) # Len(r.grid)
                   THEN FullFail("RuntimeError", "GridMismatch")
                   ELSE pc' = "errors" /\ UNCHANGED res
    /\ UNCHANGED <<op, args>>

\* errors_euler = absolute_errors(y_euler, exact_values); errors_rk4 = ...
FS_Errors ==
    /\ op = "_run_full_solve" /\ pc = "errors"
    /\ LET e == absolute_errors(loc.y_euler, loc.exact_values)
           r == absolute_errors(loc.y_rk4, loc.exact_values)
       IN  IF e.status # "ok" THEN FullFail(e.exc, e.status) /\ UNCHANGED loc
           ELSE IF r.status # "ok" THEN FullFail(r.exc, r.status) /\ UNCHANGED loc
           ELSE /\ loc' = [loc EXCEPT !.stage = "errors", !.errors_euler = e.value,
                                      !.errors_rk4 = r.value]
                /\ pc' = "metrics"
                /\ UNCHANGED res
    /\ UNCHANGED <<op, args>>

\* metrics_euler = summary_error_metrics(y_euler, exact_values); metrics_rk4 = ...
FS_Metrics ==
    /\ op = "_run_full_solve" /\ pc = "metrics"
    /\ LET e == summary_error_metrics(loc.y_euler, loc.exact_values)
           r == summary_error_metrics(loc.y_rk4, loc.exact_values)
       IN  IF e.status # "ok" THEN FullFail(e.exc, e.status) /\ UNCHANGED loc
           ELSE IF r.status # "ok" THEN FullFail(r.exc, r.status) /\ UNCHANGED loc
           ELSE /\ loc' = [loc EXCEPT !.stage = "metrics", !.metrics_euler = e.value,
                                      !.metrics_rk4 = r.value]
                /\ pc' = "respond"
                /\ UNCHANGED res
    /\ UNCHANGED <<op, args>>

\* return ErrorAnalysisResponse(...) / return EulerResponse(...)
FS_Respond ==
    /\ op \in V1Ops /\ pc = "respond"
    /\ pc' = "done"
    /\ res' = [http |-> 200, detail |-> "ok"]
    /\ UNCHANGED <<op, args, loc>>

_run_full_solve ==
    FS_Parse \/ FS_Euler \/ FS_RK4 \/ FS_Analytic \/ FS_Errors \/ FS_Metrics \/ FS_Respond

---------------------------------------------------------------------------
(* app/services/solver_service.py: solve_benchmark, one action per stage *)

\* CompareRequest: step is validated gt=0 and the method names are validated
\* against Euler and RK4 before the function runs.
\* <<x_end - x0, h>>: exact multiples, remainders below, at and above half a
\* step, an empty and a reversed domain, a span that rounds to no step, a grid
\* longer than the cap of build_time_grid
BenchCases ==
    { <<100000, 25000>>, <<100000, 50000>>, <<100000, 30000>>, <<100000, 40000>>,
      <<100000, 60000>>, <<10, 3>>, <<0, 50000>>, <<-50000, 50000>>,
      <<100000, 300000>>, <<240000, 10000>>, <<100000, 150000>>,
      <<100000, 0>>, <<100000, -25000>> }
\* the cases the monolithic service of main.py is run on
MainCases == { <<100000, 25000>>, <<100000, 30000>>, <<-50000, 50000>>, <<100000, 300000>> }
\* the equation: exp_growth with its lambda, a predefined equation without a
\* known id, a custom expression, a custom equation without an expression
BenchEquations ==
    { [type |-> "predefined", kind |-> "exp_growth", f |-> exp_growth_f(-2)],
      [type |-> "predefined", kind |-> "exp_growth", f |-> exp_growth_f(0)],
      [type |-> "predefined", kind |-> "exp_growth", f |-> exp_growth_f(1)],
      [type |-> "predefined", kind |-> "unknown_id", f |-> exp_growth_f(0)],
      [type |-> "custom", kind |-> "expression", f |-> [lam |-> -1, mu |-> 1, c |-> 0]],
      [type |-> "custom", kind |-> "no_expression", f |-> exp_growth_f(0)] }
MethodNames == {"Euler", "RK4"}
\* the names a request body may carry before it is validated
RawMethodNames == MethodNames \cup {"Heun"}
BenchMethods == SeqsUpTo(RawMethodNames, 2)
\* solve_benchmark of app/services/solver_service.py and its monolithic twin
\* solve_and_compare of main.py
CompareOps == {"solve_benchmark", "solve_and_compare"}
ComparisonModes == {"solo_numeric", "contra_analitica", "entre_metodos"}

NoErrorMetrics ==
    [some |-> FALSE, vs_analytic |-> <<>>, has_vs |-> FALSE,
     between_methods |-> NoDict, best_method |-> "None", best_method_reason |-> "None"]

BenchLoc0 ==
    [stage |-> "start", f |-> exp_growth_f(0), analytic_fn |-> FALSE,
     methods_results |-> <<>>, num_points |-> -1,
     analytic_solution |-> [some |-> FALSE, xs |-> <<>>, ys |-> <<>>],
     vs_analytic |-> <<>>, between_methods |-> NoDict,
     error_metrics |-> NoErrorMetrics]

InitBench ==
    /\ op \in CompareOps
    /\ pc = "request"
    /\ \E c \in (IF op = "solve_benchmark" THEN BenchCases ELSE MainCases),
          eq \in BenchEquations, ms \in BenchMethods, mode \in ComparisonModes :
         args = [equation |-> eq, x0 |-> 0, y0 |-> 100, x_end |-> c[1], h |-> c[2],
                 methods |-> ms, comparison_mode |-> mode]
    /\ res = NoResponse
    /\ loc = BenchLoc0

\* raise HTTPException(status_code=400, ...)
BenchReject(detail) ==
    /\ pc' = "failed"
    /\ res' = [http |-> 400, detail |-> detail]

\* an exception other than HTTPException leaves solve_benchmark uncaught
BenchRaise(detail) ==
    /\ pc' = "failed"
    /\ res' = [http |-> 500, detail |-> detail]

\* CompareRequest / SolveRequest: step: Field(gt=0), methods: List[Literal[...]];
\* a body that does not validate is answered 422 and the function is not called
SB_Request ==
    /\ op \in CompareOps /\ pc = "request"
    /\ IF args.h <= 0
       THEN pc' = "failed" /\ res' = [http |-> 422, detail |-> "InvalidStep"]
       ELSE IF \E i \in 1..Len(args.methods) : args.methods[i] \notin MethodNames
       THEN pc' = "failed" /\ res' = [http |-> 422, detail |-> "UnsupportedMethod"]
       ELSE pc' = "call" /\ UNCHANGED res
    /\ UNCHANGED <<op, args, loc>>

\* mutant of SB_Validate: the domain is not validated before f is acquired;
\* an empty domain is left to the first integrator to refuse
SB_Validate_late ==
    /\ op \in CompareOps /\ pc = "call"
    /\ pc' = "prepare"
    /\ UNCHANGED <<op, args, res, loc>>

\* _validate_domain(x0, x_end)
SB_Validate ==
    /\ op \in CompareOps /\ pc = "call"
    /\ IF args.x_end <= args.x0
       THEN BenchReject("InvalidDomain")
       ELSE pc' = "prepare" /\ UNCHANGED res
    /\ UNCHANGED <<op, args, loc>>

\* f, analytic_fn, analytic_expr_str = _prepare_equation(req.equation, ...)
SB_Prepare ==
    /\ op \in CompareOps /\ pc = "prepare"
    /\ IF args.equation.kind \in {"unknown_id", "no_expression"}
       THEN /\ IF op = "solve_and_compare"
               THEN BenchReject("ValueError")     \* main.py: except ValueError: 400
               ELSE BenchRaise("ValueError")
            /\ UNCHANGED loc
       ELSE /\ loc' = [loc EXCEPT !.stage = "prepare", !.f = args.equation.f,
                                  !.analytic_fn = (args.equation.type = "predefined")]
            /\ pc' = "check_mode"
            /\ UNCHANGED res
    /\ UNCHANGED <<op, args>>

\* mutant of SB_CheckMode: the mode is not checked before the methods run
SB_CheckMode_unchecked ==
    /\ op \in CompareOps /\ pc = "check_mode"
    /\ pc' = "methods"
    /\ UNCHANGED <<op, args, res, loc>>

\* if req.equation.type == "custom" and req.comparison_mode == "contra_analitica"
SB_CheckMode ==
    /\ op \in CompareOps /\ pc = "check_mode"
    /\ IF args.equation.type = "custom" /\ args.comparison_mode = "contra_analitica"
       THEN BenchReject("UnsupportedComparison")
       ELSE pc' = "methods" /\ UNCHANGED res
    /\ UNCHANGED <<op, args, loc>>

\* mutant of SB_Method: methods_results is a list of the module, which the
\* requests in progress share, not a local of the call
SB_Method_shared_results ==
    /\ op \in CompareOps /\ pc = "methods"
    /\ Len(loc.methods_results) < Len(args.methods)
    /\ LET method_name == args.methods[Len(loc.methods_results) + 1]
           r == IF method_name = "Euler"
                THEN euler_solve(loc.f, args.x0, args.y0, args.h, args.x_end)
                ELSE rk4_solve(loc.f, args.x0, args.y0, args.h, args.x_end)
           shared == IF loc.methods_results = <<>> /\ args.parked.op \in CompareOps
                     THEN args.parked.loc.methods_results
                     ELSE loc.methods_results
       IN  IF r.status # "ok" THEN BenchRaise(r.status) /\ UNCHANGED loc
           ELSE /\ loc' = [loc EXCEPT !.stage = "methods",
                              !.methods_results = Append(shared,
                                  [name |-> method_name, xs |-> r.xs, ys |-> r.ys,
                                   order |-> IF method_name = "Euler" THEN 1 ELSE 4,
                                   num_steps |-> Len(r.xs) - 1])]
                /\ UNCHANGED <<pc, res>>
    /\ UNCHANGED <<op, args>>

\* for method_name in req.methods: one iteration
SB_Method ==
    /\ op \in CompareOps /\ pc = "methods"
    /\ Len(loc.methods_results) < Len(args.methods)
    /\ LET method_name == args.methods[Len(loc.methods_results) + 1]
           r == IF method_name = "Euler"
                THEN euler_solve(loc.f, args.x0, args.y0, args.h, args.x_end)
                ELSE rk4_solve(loc.f, args.x0, args.y0, args.h, args.x_end)
       IN  IF method_name \notin MethodNames
           THEN BenchReject("UnsupportedMethod") /\ UNCHANGED loc
           ELSE IF r.status # "ok" THEN BenchRaise(r.status) /\ UNCHANGED loc
           ELSE /\ loc' = [loc EXCEPT !.stage = "methods",
                              !.methods_results = Append(@,
                                  [name |-> method_name, xs |-> r.xs, ys |-> r.ys,
                                   order |-> IF method_name = "Euler" THEN 1 ELSE 4,
                                   num_steps |-> Len(r.xs) - 1])]
                /\ UNCHANGED <<pc, res>>
    /\ UNCHANGED <<op, args>>

\* num_points = len(methods_results[0].points) if methods_results else 0
SB_Summary ==
    /\ op \in CompareOps /\ pc = "methods"
    /\ Len(loc.methods_results) = Len(args.methods)
    /\ loc' = [loc EXCEPT !.stage = "summary",
                  !.num_points = IF loc.methods_results # <<>>
                                 THEN Len(loc.methods_results[1].xs) ELSE 0]
    /\ pc' = "compare"
    /\ UNCHANGED <<op, args, res>>

\* vs_analytic[mr.name] = ...: a dict keeps the place of a key's first insertion
RECURSIVE dict_set(_, _, _)
dict_set(d, name, value) ==
    IF d = <<>> THEN <<[name |-> name, err |-> value]>>
    ELSE IF d[1].name = name THEN <<[name |-> name, err |-> value]>> \o Tail(d)
    ELSE <<d[1]>> \o dict_set(Tail(d), name, value)

\* mutant of vs_analytic_of: only the first method is compared with the reference
vs_analytic_of_first_only(mrs, ys_analytic, d) ==
    IF mrs = <<>> THEN d
    ELSE dict_set(d, mrs[1].name, compute_pointwise_errors(mrs[1].ys, ys_analytic))

RECURSIVE vs_analytic_of(_, _, _)
vs_analytic_of(mrs, ys_analytic, d) ==
    IF mrs = <<>> THEN d
    ELSE vs_analytic_of(Tail(mrs), ys_analytic,
                        dict_set(d, mrs[1].name,
                                 compute_pointwise_errors(mrs[1].ys, ys_analytic)))

\* mutant of best_of: the comparison is <=, the last of equal RMSEs wins
RECURSIVE best_of_last_wins_ties(_, _)
best_of_last_wins_ties(d, best) ==
    IF d = <<>> THEN best
    ELSE best_of_last_wins_ties(Tail(d),
                 IF ~best.some \/ d[1].err.rmse <= best.rmse
                 THEN [some |-> TRUE, name |-> d[1].name, rmse |-> d[1].err.rmse]
                 ELSE best)

\* for name, err in vs_analytic.items(): if best_rmse is None or err.rmse < best_rmse
RECURSIVE best_of(_, _)
best_of(d, best) ==
    IF d = <<>> THEN best
    ELSE best_of(Tail(d),
                 IF ~best.some \/ d[1].err.rmse < best.rmse
                 THEN [some |-> TRUE, name |-> d[1].name, rmse |-> d[1].err.rmse]
                 ELSE best)

\* mutant of between_methods_of: the first trajectory is compared with itself
between_methods_of_first_twice(mrs) ==
    compute_pointwise_errors(mrs[1].ys, mrs[1].ys)

between_methods_of(mrs) ==
    compute_pointwise_errors(mrs[1].ys, mrs[2].ys)

AsDict(e) == SomeDict(Num(e.max), Num(e.rmse))

\* the comparison against the analytic solution (lines 277 to 314)
compare_with_analytic(mrs) ==
    LET xs_ref == mrs[1].xs
        ys_analytic == [i \in 1..Len(xs_ref) |->
                          Num(exp_growth_analytic(args.equation.f.lam, args.x0, args.y0,
                                                  xs_ref[i]))]
        vs == vs_analytic_of(mrs, ys_analytic, <<>>)
        between == IF Len(mrs) >= 2 THEN between_methods_of(mrs)
                   ELSE [status |-> "ok", exc |-> "none", max |-> 0, rmse |-> 0]
        best == best_of(vs, [some |-> FALSE, name |-> "None", rmse |-> 0])
    IN  [status |-> IF \E i \in 1..Len(vs) : vs[i].err.status # "ok" THEN "LengthMismatch"
                    ELSE between.status,
         analytic_solution |-> [some |-> TRUE, xs |-> xs_ref, ys |-> ys_analytic],
         error_metrics |->
             [some |-> TRUE, vs_analytic |-> vs, has_vs |-> TRUE,
              between_methods |-> IF Len(mrs) >= 2 THEN AsDict(between) ELSE NoDict,
              best_method |-> best.name,
              best_method_reason |-> IF best.some THEN best.name ELSE "None"]]

\* mutant of compare_between_methods: the first method is always named best
compare_between_methods_naming_first(mrs) ==
    LET between == between_methods_of(mrs)
    IN  [status |-> between.status,
         error_metrics |->
             [some |-> TRUE, vs_analytic |-> <<>>, has_vs |-> FALSE,
              between_methods |-> AsDict(between),
              best_method |-> mrs[1].name,
              best_method_reason |-> "RK4"]]

\* the comparison between methods only (lines 317 to 331)
compare_between_methods(mrs) ==
    LET between == between_methods_of(mrs)
        has_rk4 == \E i \in 1..Len(mrs) : mrs[i].name = "RK4"
    IN  [status |-> between.status,
         error_metrics |->
             [some |-> TRUE, vs_analytic |-> <<>>, has_vs |-> FALSE,
              between_methods |-> AsDict(between),
              best_method |-> IF has_rk4 THEN "RK4" ELSE mrs[1].name,
              best_method_reason |-> "RK4"]]

\* if comparison_mode in ("contra_analitica", "entre_metodos") and analytic_fn
AnalyticBranch ==
    args.comparison_mode \in {"contra_analitica", "entre_metodos"} /\ loc.analytic_fn

\* elif comparison_mode == "entre_metodos" and analytic_fn is None and two methods
BetweenBranch ==
    /\ ~AnalyticBranch
    /\ args.comparison_mode = "entre_metodos" /\ ~loc.analytic_fn
    /\ Len(loc.methods_results) >= 2

\* lines 278 to 290: the reference on the first method's points and every
\* method's summary against it
SB_Reference ==
    /\ op \in CompareOps /\ pc = "compare"
    /\ AnalyticBranch
    /\ LET mrs == loc.methods_results
       IN  IF mrs = <<>> THEN BenchRaise("IndexError") /\ UNCHANGED loc
           ELSE LET c == compare_with_analytic(mrs)
                    vs == c.error_metrics.vs_analytic
                IN  IF \E i \in 1..Len(vs) : vs[i].err.status # "ok"
                    THEN BenchRaise("LengthMismatch") /\ UNCHANGED loc
                    ELSE /\ loc' = [loc EXCEPT !.stage = "reference",
                                       !.analytic_solution = c.analytic_solution,
                                       !.vs_analytic = vs]
                         /\ pc' = IF Len(mrs) >= 2 THEN "between" ELSE "best"
                         /\ UNCHANGED res
    /\ UNCHANGED <<op, args>>

\* lines 292 to 296 and 318 to 321: the first method against the second
SB_Between ==
    /\ op \in CompareOps
    /\ pc = "between" \/ (pc = "compare" /\ BetweenBranch)
    /\ LET between == between_methods_of(loc.methods_results)
       IN  IF between.status # "ok" THEN BenchRaise(between.status) /\ UNCHANGED loc
           ELSE /\ loc' = [loc EXCEPT !.stage = "between",
                              !.between_methods = AsDict(between)]
                /\ pc' = "best"
                /\ UNCHANGED res
    /\ UNCHANGED <<op, args>>

\* lines 298 to 314 and 323 to 331: the best method, its reason, ErrorMetrics
SB_Best ==
    /\ op \in CompareOps /\ pc = "best"
    /\ LET c == IF AnalyticBranch THEN compare_with_analytic(loc.methods_results)
                ELSE compare_between_methods(loc.methods_results)
       IN  loc' = [loc EXCEPT !.stage = "best", !.error_metrics = c.error_metrics]
    /\ pc' = "assemble"
    /\ UNCHANGED <<op, args, res>>

\* neither comparison is asked for: error_metrics stays None
SB_Compare ==
    /\ op \in CompareOps /\ pc = "compare"
    /\ ~AnalyticBranch /\ ~BetweenBranch
    /\ loc' = [loc EXCEPT !.stage = "compare"]
    /\ pc' = "assemble"
    /\ UNCHANGED <<op, args, res>>

\* return CompareResponse(...)
SB_Return ==
    /\ op \in CompareOps /\ pc = "assemble"
    /\ pc' = "done"
    /\ res' = [http |-> 200, detail |-> "ok"]
    /\ UNCHANGED <<op, args, loc>>

solve_benchmark ==
    \/ SB_Request \/ SB_Validate \/ SB_Prepare \/ SB_CheckMode \/ SB_Method \/ SB_Summary
    \/ SB_Reference \/ SB_Between \/ SB_Best \/ SB_Compare \/ SB_Return

---------------------------------------------------------------------------
(* The four integrators statement by statement: the entry up to the loop, one
   action per loop iteration, the return. loc.calls is the list of the points
   <<x, y>> at which f has been called, x in half ticks. *)

LoopOps == {"euler_solver", "rk4_solver", "euler_solve", "rk4_solve"}
OnBuiltGrid == op \in {"euler_solver", "rk4_solver"}

\* <<T - t0, h, y0>>: exact multiples, a shortened last step, a span below
\* half a step, steps below the loop tolerance, an empty and a reversed domain,
\* a non-positive step, an estimate above the cap, and the unit interval in
\* steps of 0.1 and 0.05 with y0 = 1 to six and to eight decimals
LoopCases ==
    { <<300000, 100000, 100>>, <<500000, 300000, 100>>, <<800000, 300000, 100>>,
      <<100000, 300000, 100>>, <<3, 3, 100>>, <<5, 1, 100>>,
      <<0, 100000, 100>>, <<-100000, 100000, 100>>, <<300000, 0, 100>>,
      <<300000, -100000, 100>>, <<230000, 10000, 100>>,
      <<100000, 10000, 1000000>>, <<100000, 10000, 100000000>>,
      <<100000, 5000, 100000000>> }

NoTrace == [stage |-> "none", grid |-> <<>>, ys |-> <<>>, k |-> 0, n_steps |-> 0,
            calls |-> <<>>]
NoTrajectory == [status |-> "none", exc |-> "none", grid |-> <<>>, ys |-> <<>>]

InitLoop ==
    /\ op \in LoopOps
    /\ pc = "enter"
    /\ \E f \in Fs, t0 \in RoundX0,
          c \in LoopCases \cup (IF OnBuiltGrid THEN {}
                                ELSE {<<r[1], r[2], 100>> : r \in RoundCases}) :
         args = IF OnBuiltGrid
                THEN [f_num |-> f, t0 |-> t0, y0 |-> c[3], T |-> t0 + c[1], h |-> c[2]]
                ELSE [f |-> f, x0 |-> t0, y0 |-> c[3], h |-> c[2], x_end |-> t0 + c[1]]
    /\ res = IF OnBuiltGrid THEN NoTrajectory ELSE NoSolve
    /\ loc = NoTrace

\* the four points at which one RK4 step calls f, in call order
rk4_calls(f, x, y, h) ==
    LET k1 == ApplyF(f, 2 * x, y)
        k2 == ApplyF(f, 2 * x + h, y + StepMul(h, k1, 2))
        k3 == ApplyF(f, 2 * x + h, y + StepMul(h, k2, 2))
    IN  << <<2 * x, y>>, <<2 * x + h, y + StepMul(h, k1, 2)>>,
           <<2 * x + h, y + StepMul(h, k2, 2)>>, <<2 * x + 2 * h, y + StepMul(h, k3, 1)>> >>

\* grid = build_time_grid(t0, T, h); y_values = [y0]
solver_enter ==
    LET g == build_time_grid(args.t0, args.T, args.h, DefaultMaxPoints)
    IN  IF g.status # "ok"
        THEN /\ res' = [status |-> g.status, exc |-> "ValueError", grid |-> <<>>, ys |-> <<>>]
             /\ pc' = "failed"
             /\ UNCHANGED loc
        ELSE /\ loc' = [stage |-> "loop", grid |-> g.grid, ys |-> <<args.y0>>, k |-> 0,
                        n_steps |-> Len(g.grid) - 1, calls |-> <<>>]
             /\ pc' = "loop"
             /\ UNCHANGED res

\* the checks of h and n_steps; xs = [x0]; ys = [y0]
solve_enter ==
    IF args.h <= 0
    THEN res' = SolveRaised("InvalidStep") /\ pc' = "failed" /\ UNCHANGED loc
    ELSE IF n_steps_of(args.x0, args.x_end, args.h) <= 0
    THEN res' = SolveRaised("InvalidDomain") /\ pc' = "failed" /\ UNCHANGED loc
    ELSE /\ loc' = [stage |-> "loop", grid |-> <<args.x0>>, ys |-> <<args.y0>>, k |-> 0,
                    n_steps |-> n_steps_of(args.x0, args.x_end, args.h), calls |-> <<>>]
         /\ pc' = "loop"
         /\ UNCHANGED res

LoopEnter ==
    /\ op \in LoopOps
    /\ pc = "enter"
    /\ IF OnBuiltGrid THEN solver_enter ELSE solve_enter
    /\ UNCHANGED <<op, args>>

\* mutant of euler_solver_step: every step has the nominal size h, the last
\* one included
euler_solver_step_nominal_h(l) ==
    LET i == l.k + 1
        t_n == l.grid[i]
        y_n == l.ys[Len(l.ys)]
    IN  [l EXCEPT !.k = i,
                  !.calls = Append(@, <<2 * t_n, y_n>>),
                  !.ys = Append(@, euler_step(args.f_num, t_n, y_n, args.h))]

\* one iteration of for i in range(len(grid) - 1) in euler_solver
euler_solver_step(l) ==
    LET i == l.k + 1
        t_n == l.grid[i]
        y_n == l.ys[Len(l.ys)]
        h_n == l.grid[i + 1] - l.grid[i]
    IN  [l EXCEPT !.k = i,
                  !.calls = Append(@, <<2 * t_n, y_n>>),
                  !.ys = Append(@, euler_step(args.f_num, t_n, y_n, h_n))]

\* mutant of rk4_solver_step: the first stage uses the spacing h_n, the later
\* stages and the update the nominal step h
rk4_solver_step_nominal_h(l) ==
    LET i == l.k + 1
        t_n == l.grid[i]
        y_n == l.ys[Len(l.ys)]
    IN  [l EXCEPT !.k = i,
                  !.calls = @ \o rk4_calls(args.f_num, t_n, y_n, args.h),
                  !.ys = Append(@, rk4_step(args.f_num, t_n, y_n, args.h))]

\* one iteration of for i in range(len(grid) - 1) in rk4_solver
rk4_solver_step(l) ==
    LET i == l.k + 1
        t_n == l.grid[i]
        y_n == l.ys[Len(l.ys)]
        h_n == l.grid[i + 1] - l.grid[i]
    IN  [l EXCEPT !.k = i,
                  !.calls = @ \o rk4_calls(args.f_num, t_n, y_n, h_n),
                  !.ys = Append(@, rk4_step(args.f_num, t_n, y_n, h_n))]

\* mutant of euler_solve_step: xs.append(x) is left out
euler_solve_step_without_x(l) ==
    LET x == l.grid[Len(l.grid)] + (l.k + 1 - Len(l.grid)) * args.h
        y == l.ys[Len(l.ys)]
    IN  [l EXCEPT !.k = l.k + 1,
                  !.calls = Append(@, <<2 * x, y>>),
                  !.ys = Append(@, euler_step(args.f, x, y, args.h))]

\* one iteration of for k in range(n_steps) in euler_solve: x and y are the
\* last entries of xs and ys
euler_solve_step(l) ==
    LET x == l.grid[Len(l.grid)]
        y == l.ys[Len(l.ys)]
    IN  [l EXCEPT !.k = l.k + 1,
                  !.calls = Append(@, <<2 * x, y>>),
                  !.grid = Append(@, args.x0 + (l.k + 1) * args.h),
                  !.ys = Append(@, euler_step(args.f, x, y, args.h))]

\* one iteration of for k in range(n_steps) in rk4_solve
rk4_solve_step(l) ==
    LET x == l.grid[Len(l.grid)]
        y == l.ys[Len(l.ys)]
    IN  [l EXCEPT !.k = l.k + 1,
                  !.calls = @ \o rk4_calls(args.f, x, y, args.h),
                  !.grid = Append(@, args.x0 + (l.k + 1) * args.h),
                  !.ys = Append(@, rk4_step(args.f, x, y, args.h))]

LoopStep ==
    /\ op \in LoopOps
    /\ pc = "loop"
    /\ loc.k < loc.n_steps
    /\ loc' = CASE op = "euler_solver" -> euler_solver_step(loc)
                [] op = "rk4_solver" -> rk4_solver_step(loc)
                [] op = "euler_solve" -> euler_solve_step(loc)
                [] OTHER -> rk4_solve_step(loc)
    /\ UNCHANGED <<op, pc, args, res>>

\* return grid, y_values; return xs, ys
LoopReturn ==
    /\ op \in LoopOps
    /\ pc = "loop"
    /\ loc.k >= loc.n_steps
    /\ res' = IF OnBuiltGrid
              THEN [status |-> "ok", exc |-> "none", grid |-> loc.grid, ys |-> Floats(loc.ys)]
              ELSE SolveReturned(loc.grid, Floats(loc.ys))
    /\ pc' = "done"
    /\ UNCHANGED <<op, args, loc>>

integrate == LoopEnter \/ LoopStep \/ LoopReturn

---------------------------------------------------------------------------
(* The summaries' arithmetic in binary floating point. summary_of and
   compute_pointwise_errors above compute in exact arithmetic and round the
   root down to the unit. The source's floats round every operation; here a
   float is a non-negative integer with at most FloatBits significant bits,
   where the source's have 53, and every operation yields the float nearest
   to its exact result, ties to even. *)

FloatBits == 7

\* the spacing of the floats around q: the least power of two u with
\* q < 2^FloatBits * u
RECURSIVE ulp_of(_, _)
ulp_of(q, u) == IF q < (2 ^ FloatBits) * u THEN u ELSE ulp_of(q, 2 * u)

\* the float nearest to num / den, for num >= 0 and den > 0
fl(num, den) ==
    LET u == ulp_of(num \div den, 1)
    IN  RoundDiv(num, den * u) * u

\* math.sqrt(x): the float nearest to the square root of x
fl_sqrt(x) ==
    LET s == sqrt_floor(x)
        u == ulp_of(s, 1)
        lo == (s \div u) * u
        hi == lo + u
    IN  IF 4 * x < (lo + hi) * (lo + hi) THEN lo
        ELSE IF 4 * x > (lo + hi) * (lo + hi) THEN hi
        ELSE IF (lo \div u) % 2 = 0 THEN lo ELSE hi

\* sum(e * e for e in valid): each square and each partial sum is rounded
RECURSIVE float_sum_squares(_, _)
float_sum_squares(xs, s) ==
    IF xs = <<>> THEN s
    ELSE float_sum_squares(Tail(xs), fl(s + fl(xs[1].v * xs[1].v, 1), 1))

\* max(valid) and math.sqrt(sum(e * e for e in valid) / len(valid))
float_summary(errs) ==
    LET valid == valid_errors(errs)
    IN  IF valid = <<>> THEN SomeDict(None, None)
        ELSE SomeDict(Num(max_of(valid)),
                      Num(fl_sqrt(fl(float_sum_squares(valid, 0), Len(valid)))))

\* floats of FloatBits bits, and NaN
FloatValues == {Num(79), Num(100), Num(112), Num(218), NaN}

\* a summary of a list against zeros, or against itself
InitFloat ==
    /\ op = "float_summary"
    /\ pc = "call"
    /\ \E a \in SeqsUpTo(FloatValues, MaxLen) \ {<<>>}, self \in BOOLEAN :
         args = [approx |-> a,
                 exact |-> SomeList(IF self THEN a ELSE [i \in 1..Len(a) |-> Num(0)])]
    /\ res = NoMetric
    /\ loc = NoLoc

CallFloatSummary ==
    /\ op = "float_summary"
    /\ pc = "call"
    /\ res' = [status |-> "ok", exc |-> "none",
               value |-> float_summary(error_list(args.approx, args.exact.list))]
    /\ pc' = "done"
    /\ UNCHANGED <<op, args, loc>>

---------------------------------------------------------------------------
(* Two requests in progress at once. The routes are plain functions, which the
   server runs on worker threads: the steps of two requests interleave. The
   variables hold the request whose step is taken and args.parked holds the
   other request with all its locals; SwitchRequest passes the turn. *)

NoParked == [op |-> "none"]

PairBench(c, eq, ms, mode) ==
    [op |-> "solve_benchmark", pc |-> "request", res |-> NoResponse, loc |-> BenchLoc0,
     args |-> [equation |-> eq, x0 |-> 0, y0 |-> 100, x_end |-> c[1], h |-> c[2],
               methods |-> ms, comparison_mode |-> mode, parked |-> NoParked]]

PairFull(c, f, sol) ==
    [op |-> "_run_full_solve", pc |-> "call", res |-> NoResponse, loc |-> FullLoc0,
     args |-> [parse |-> "ok", f |-> f, sol |-> sol, t0 |-> 0, y0 |-> 100,
               T |-> c[1], h |-> c[2], parked |-> NoParked]]

PairRequests ==
    { PairBench(<<100000, 25000>>, [type |-> "predefined", kind |-> "exp_growth",
                                    f |-> exp_growth_f(-2)],
                <<"Euler", "RK4">>, "contra_analitica"),
      PairBench(<<100000, 50000>>, [type |-> "predefined", kind |-> "exp_growth",
                                    f |-> exp_growth_f(1)],
                <<"RK4", "Euler">>, "entre_metodos"),
      PairBench(<<100000, 30000>>, [type |-> "custom", kind |-> "expression",
                                    f |-> [lam |-> -1, mu |-> 1, c |-> 0]],
                <<"Euler", "RK4">>, "entre_metodos"),
      PairBench(<<100000, 50000>>, [type |-> "custom", kind |-> "expression",
                                    f |-> [lam |-> -1, mu |-> 1, c |-> 0]],
                <<"RK4">>, "solo_numeric"),
      PairBench(<<100000, 300000>>, [type |-> "predefined", kind |-> "exp_growth",
                                     f |-> exp_growth_f(1)],
                <<"Euler">>, "solo_numeric"),
      PairFull(<<300000, 100000>>, [lam |-> 0, mu |-> 0, c |-> 3],
               [status |-> "ok", slope |-> 3, poles |-> {}]),
      PairFull(<<500000, 200000>>, [lam |-> 1, mu |-> 0, c |-> 0],
               [status |-> "failed", slope |-> 0, poles |-> {}]),
      PairFull(<<250000, 100000>>, [lam |-> 1, mu |-> 0, c |-> 0],
               [status |-> "ok", slope |-> 1, poles |-> {}]) }

InitPair ==
    \E a, b \in PairRequests :
        /\ op = a.op /\ pc = a.pc /\ res = a.res /\ loc = a.loc
        /\ args = [a.args EXCEPT !.parked = b]

\* the other request takes the next step
SwitchRequest ==
    LET me == [op |-> op, pc |-> pc, res |-> res, loc |-> loc,
               args |-> [args EXCEPT !.parked = NoParked]]
        you == args.parked
    IN  /\ op' = you.op /\ pc' = you.pc /\ res' = you.res /\ loc' = you.loc
        /\ args' = [you.args EXCEPT !.parked = me]

NextPair == _run_full_solve \/ solve_benchmark \/ SwitchRequest

SpecPair == InitPair /\ [][NextPair]_vars

---------------------------------------------------------------------------
(* Claims about build_time_grid *)

GridCalled == op = "build_time_grid" /\ pc # "call"
GridReturned == op = "build_time_grid" /\ pc = "done"
Last(s) == s[Len(s)]

C3_GridStrictlyIncreasing ==
    GridReturned => \A i \in 1..(Len(res.grid) - 1) : res.grid[i] < res.grid[i + 1]

\* a grid of several points that ends with an appended T
C3_Witness ==
    /\ GridReturned
    /\ Len(res.grid) >= 3
    /\ Last(res.grid) = args.T
    /\ (args.T - args.t0) % args.h # 0

\* C4 as stated: the call fails with GridTooLarge whenever the estimate
\* exceeds max_points, and a returned grid has at most floor((T - t0)/h) + 2
\* <= max_points points.
C4_GridSizeGuard ==
    (GridCalled /\ args.h > 0 /\ args.T > args.t0) =>
        /\ n_estimated(args.t0, args.T, args.h) > args.max_points
              => (res.status = "GridTooLarge" /\ res.grid = <<>>)
        /\ res.status = "ok"
              => /\ Len(res.grid) <= ((args.T - args.t0) \div args.h) + 2
                 /\ ((args.T - args.t0) \div args.h) + 2 <= args.max_points

\* C6: h <= 0 fails with InvalidStep, also when T <= t0; T <= t0 with h > 0
\* fails with InvalidDomain; neither produces a grid point.
C6_StepThenDomain ==
    GridCalled =>
        /\ args.h <= 0 => (res.status = "InvalidStep" /\ res.grid = <<>> /\ pc = "failed")
        /\ (args.h > 0 /\ args.T <= args.t0)
              => (res.status = "InvalidDomain" /\ res.grid = <<>> /\ pc = "failed")

\* a call with both h <= 0 and T <= t0 has failed
C6_Witness ==
    GridCalled /\ args.h <= 0 /\ args.T <= args.t0 /\ res.status = "InvalidStep"

---------------------------------------------------------------------------
(* Claims about the round-based construction *)

RoundReturned == op \in RoundOps /\ pc = "done"

\* C2 as stated: a grid the round-based construction returns starts at x0 and
\* its last point is x_end.
C2_RoundGridEndsAtXEnd ==
    RoundReturned => (res.xs[1] = args.x0 /\ Last(res.xs) = args.x_end)

---------------------------------------------------------------------------
(* Claims about the error metrics *)

\* the call's two lists are index-aligned lists of floats (NaN included)
MetricFloatLists ==
    /\ args.exact.some
    /\ Len(args.approx) = Len(args.exact.list)
    /\ \A i \in 1..Len(args.approx) : ~IsNone(args.exact.list[i])

\* C8: absolute_errors returns None for a None reference; otherwise it fails
\* with LengthMismatch when the lengths differ; otherwise it returns a list of
\* the same length whose entry i is NaN when reference[i] is NaN and
\* |approx[i] - reference[i]| when it is not.
C8_AbsoluteErrors ==
    (op = "absolute_errors" /\ pc # "call") =>
        /\ ~args.exact.some => (res.status = "ok" /\ ~res.value.some)
        /\ (args.exact.some /\ Len(args.approx) # Len(args.exact.list))
              => (res.status = "LengthMismatch" /\ pc = "failed")
        /\ MetricFloatLists =>
              /\ res.status = "ok"
              /\ res.value.some
              /\ Len(res.value.list) = Len(args.approx)
              /\ \A i \in 1..Len(args.approx) :
                    LET a == args.approx[i]
                        e == args.exact.list[i]
                        out == res.value.list[i]
                    IN  IF IsNaN(e) \/ IsNaN(a) THEN IsNaN(out)
                        ELSE out = Num(Abs(a.v - e.v))

\* a call whose reference holds a NaN and a number, answered entry by entry
C8_Witness ==
    /\ op = "absolute_errors"
    /\ pc = "done"
    /\ MetricFloatLists
    /\ Len(args.approx) = MaxLen
    /\ \E i, j \in 1..Len(args.approx) :
          /\ IsNaN(args.exact.list[i])
          /\ IsNum(args.exact.list[j]) /\ IsNum(args.approx[j])
          /\ res.value.list[j].v > 0

\* the indices whose pointwise error is a number
ValidIdx == {i \in 1..Len(args.approx) : IsNum(args.approx[i]) /\ IsNum(args.exact.list[i])}
ErrAt(i) == Abs(args.approx[i].v - args.exact.list[i].v)

RECURSIVE SumSqOver(_)
SumSqOver(I) ==
    IF I = {} THEN 0
    ELSE LET i == CHOOSE j \in I : TRUE IN ErrAt(i) * ErrAt(i) + SumSqOver(I \ {i})

\* C9: the summary's max is the largest non-NaN pointwise error and its rmse is
\* the square root (rounded down to the model's precision) of the sum of the
\* squared non-NaN errors divided by their count; when every error is NaN the
\* summary is returned with max and rmse both None.
C9_SummaryOverValidErrors ==
    (op = "summary_error_metrics" /\ pc # "call" /\ MetricFloatLists) =>
        /\ res.status = "ok"
        /\ res.value.some
        /\ IF ValidIdx = {}
           THEN IsNone(res.value.max) /\ IsNone(res.value.rmse)
           ELSE LET n == Cardinality(ValidIdx)
                    r == res.value.rmse.v
                IN  /\ IsNum(res.value.max) /\ IsNum(res.value.rmse)
                    /\ \A i \in ValidIdx : ErrAt(i) <= res.value.max.v
                    /\ \E i \in ValidIdx : ErrAt(i) = res.value.max.v
                    /\ r >= 0
                    /\ r * r * n <= SumSqOver(ValidIdx)
                    /\ SumSqOver(ValidIdx) < (r + 1) * (r + 1) * n

\* a summary over a list with a NaN error and two different non-NaN errors
C9_Witness ==
    /\ op = "summary_error_metrics"
    /\ pc = "done"
    /\ MetricFloatLists
    /\ Cardinality(ValidIdx) = 2
    /\ Len(args.approx) = 3
    /\ \E i, j \in ValidIdx : ErrAt(i) < ErrAt(j)
    /\ IsNum(res.value.rmse) /\ res.value.rmse.v > 0

---------------------------------------------------------------------------
(* Claims about the solve entry points *)

FullSolve == op = "_run_full_solve"
Benchmark == op = "solve_benchmark"

\* C5 as stated: in every accepted solve request the number of grid points an
\* integrator produces is at most the configured maximum (max_points' default).
C5_PointsBoundedByCap ==
    /\ (FullSolve /\ pc = "done") =>
          (Len(loc.y_euler) <= DefaultMaxPoints /\ Len(loc.y_rk4) <= DefaultMaxPoints)
    /\ (Benchmark /\ pc = "done") =>
          \A i \in 1..Len(loc.methods_results) :
              Len(loc.methods_results[i].ys) <= DefaultMaxPoints

\* C7: in one run every method's trajectory and the reference, when present,
\* are on the same grid, one y per grid point, and neither the grid-mismatch
\* checks of _run_full_solve nor a length mismatch of the error metrics fires.
C7_OneSharedGrid ==
    /\ FullSolve =>
          /\ res.detail \notin {"GridMismatch", "LengthMismatch"}
          /\ loc.stage \in {"rk4", "analytic", "errors", "metrics"} =>
                /\ loc.grid_rk = loc.grid_e
                /\ Len(loc.y_euler) = Len(loc.grid_e)
                /\ Len(loc.y_rk4) = Len(loc.grid_e)
          /\ loc.stage \in {"analytic", "errors", "metrics"} =>
                /\ loc.grid_a = loc.grid_e
                /\ loc.exact_values.some => Len(loc.exact_values.list) = Len(loc.grid_e)
    /\ Benchmark =>
          /\ res.detail # "LengthMismatch"
          /\ \A i, j \in 1..Len(loc.methods_results) :
                /\ loc.methods_results[i].xs = loc.methods_results[j].xs
                /\ Len(loc.methods_results[i].ys) = Len(loc.methods_results[j].xs)
          /\ loc.analytic_solution.some =>
                /\ loc.analytic_solution.xs = loc.methods_results[1].xs
                /\ Len(loc.analytic_solution.ys) = Len(loc.analytic_solution.xs)

\* a finished comparison of Euler and RK4 against the analytic solution, on a
\* grid whose step count was rounded up
C7_Witness ==
    /\ Benchmark /\ pc = "done"
    /\ Len(loc.methods_results) = 2
    /\ loc.methods_results[1].name # loc.methods_results[2].name
    /\ loc.analytic_solution.some
    /\ Len(loc.analytic_solution.xs) >= 3
    /\ Last(loc.analytic_solution.xs) > args.x_end

\* the analytic solution was obtained and has no value at some grid point
MissingExact ==
    /\ FullSolve
    /\ loc.exact_values.some
    /\ \E i \in 1..Len(loc.exact_values.list) : IsNone(loc.exact_values.list[i])

ErrorsTolerateMissing(ys, errs) ==
    /\ errs.some
    /\ Len(errs.list) = Len(ys)
    /\ \A i \in 1..Len(ys) :
          IF IsNone(loc.exact_values.list[i]) THEN ~IsNum(errs.list[i])
          ELSE errs.list[i] = AbsDiff(ys[i], loc.exact_values.list[i])

\* C10 as stated: when the analytic solution has no finite value at some grid
\* points the full solve still succeeds, the pointwise error is undefined at
\* those indices and |approx - exact| at the others, and a summary is returned.
C10_MissingExactTolerated ==
    (MissingExact /\ pc \in {"done", "failed"}) =>
        /\ pc = "done"
        /\ res.http = 200
        /\ ErrorsTolerateMissing(loc.y_euler, loc.errors_euler)
        /\ ErrorsTolerateMissing(loc.y_rk4, loc.errors_rk4)
        /\ loc.metrics_euler.some /\ loc.metrics_rk4.some

---------------------------------------------------------------------------
(* Claims about failures and degraded results of the solve entry points *)

CustomNoReference ==
    /\ Benchmark
    /\ args.equation.type = "custom"
    /\ args.comparison_mode \in {"solo_numeric", "entre_metodos"}

\* C11: an analytic solution that is not available does not abort a request.
\* In _run_full_solve, once analytic_solver has reported "failed" the request
\* cannot fail and ends 200 with both numeric trajectories and no exact values,
\* pointwise errors or summaries; in solve_benchmark a custom equation in mode
\* solo_numeric or entre_metodos whose methods have run cannot fail and ends
\* 200 with every requested trajectory and neither reference nor vs_analytic.
C11_AnalyticUnavailableDegrades ==
    /\ (FullSolve /\ loc.analytic_status = "failed") =>
          /\ pc # "failed"
          /\ pc = "done" =>
                /\ res.http = 200
                /\ Len(loc.grid_e) >= 2
                /\ Len(loc.y_euler) = Len(loc.grid_e)
                /\ Len(loc.y_rk4) = Len(loc.grid_e)
                /\ ~loc.exact_values.some
                /\ ~loc.errors_euler.some /\ ~loc.errors_rk4.some
                /\ ~loc.metrics_euler.some /\ ~loc.metrics_rk4.some
    /\ (CustomNoReference /\ loc.stage \in {"summary", "compare", "between", "best"}) =>
          /\ pc # "failed"
          /\ pc = "done" =>
                /\ res.http = 200
                /\ Len(loc.methods_results) = Len(args.methods)
                /\ \A i \in 1..Len(args.methods) :
                      /\ loc.methods_results[i].name = args.methods[i]
                      /\ Len(loc.methods_results[i].ys) >= 2
                /\ ~loc.analytic_solution.some
                /\ ~loc.error_metrics.has_vs

C11_Witness ==
    /\ FullSolve /\ pc = "done"
    /\ loc.analytic_status = "failed"
    /\ Len(loc.y_euler) >= 3

\* a validated compare request
ValidCompareRequest ==
    /\ op \in CompareOps
    /\ args.h > 0
    /\ \A i \in 1..Len(args.methods) : args.methods[i] \in MethodNames

UnsupportedComparisonRequest ==
    /\ ValidCompareRequest
    /\ args.equation.type = "custom" /\ args.equation.kind = "expression"
    /\ args.comparison_mode = "contra_analitica"
    /\ args.x_end > args.x0

\* C12: a compare request with a custom equation and mode contra_analitica
\* (valid domain, parseable expression, any methods) never reaches the methods
\* loop, so no grid is built and no integrator runs, and it ends as the 400
\* failure UnsupportedComparison; in solve_benchmark and in solve_and_compare.
C12_UnsupportedComparisonFirst ==
    UnsupportedComparisonRequest =>
        /\ pc \notin {"methods", "compare", "between", "best", "assemble", "done"}
        /\ loc.methods_results = <<>>
        /\ pc = "failed" => res = [http |-> 400, detail |-> "UnsupportedComparison"]

C12_Witness ==
    /\ UnsupportedComparisonRequest
    /\ pc = "failed"
    /\ Len(args.methods) = 2
    /\ RoundDiv(args.x_end - args.x0, args.h) >= 2

ValidationFailures ==
    {"InvalidDomain", "InvalidStep", "GridTooLarge", "UnsupportedMethod",
     "UnsupportedComparison"}

\* C13: when solve_benchmark fails a request for its domain, its step or
\* step count, a method name or the comparison mode, no requested method has
\* been integrated: no trajectory has been produced.
C13_ValidationBeforeIntegration ==
    (Benchmark /\ pc = "failed" /\ res.detail \in ValidationFailures) =>
        loc.methods_results = <<>>

\* a request over a valid domain whose step count rounds to 0, refused by
\* the first integrator
C13_Witness ==
    /\ Benchmark /\ pc = "failed"
    /\ res.detail = "InvalidDomain"
    /\ args.x_end > args.x0
    /\ Len(args.methods) = 2 /\ args.methods[1] # args.methods[2]

\* C14 as stated: every domain, step or method validation failure of a solve
\* request (compare orchestrator or full solve) is answered as a client error
\* (4xx), never as a server error or an uncaught exception (500).
C14_ValidationIsClientError ==
    ((op \in CompareOps \/ FullSolve) /\ pc = "failed"
        /\ res.detail \in ValidationFailures) =>
        (res.http >= 400 /\ res.http <= 499)

\* C15: a request whose expression for f does not parse, or uses a symbol
\* other than t and y, is answered with the client error 422 carrying the
\* parse failure, and no grid has been built nor any integrator run; in
\* solve_euler and in _run_full_solve, which both take f through parse_rhs.
C15_ParseErrorFirst ==
    (op \in V1Ops /\ args.parse # "ok" /\ pc # "call") =>
        /\ pc = "failed"
        /\ res = [http |-> 422, detail |-> "ParseError"]
        /\ loc.stage = "start"
        /\ loc.grid_e = <<>> /\ loc.y_euler = <<>>

\* f = "z + y" sent to solve_euler over a valid domain
C15_Witness ==
    /\ op = "solve_euler" /\ pc = "failed"
    /\ args.parse = "symbol"
    /\ args.T > args.t0

---------------------------------------------------------------------------
(* Claims about the comparison of solve_benchmark *)

BenchDone == Benchmark /\ pc = "done"

\* the sum over 1..n of (a[i] - b[i])^2
RECURSIVE SqDist(_, _, _)
SqDist(a, b, n) ==
    IF n = 0 THEN 0
    ELSE (a[n].v - b[n].v) * (a[n].v - b[n].v) + SqDist(a, b, n - 1)

\* e is the error summary of the trajectory a against b: max is the largest
\* pointwise distance, rmse the square root of the mean squared distance
\* (rounded down to the model's precision)
IsSummaryOf(e, a, b) ==
    /\ Len(a) = Len(b)
    /\ \A i \in 1..Len(a) : Abs(a[i].v - b[i].v) <= e.max
    /\ \E i \in 1..Len(a) : Abs(a[i].v - b[i].v) = e.max
    /\ e.rmse >= 0
    /\ e.rmse * e.rmse * Len(a) <= SqDist(a, b, Len(a))
    /\ SqDist(a, b, Len(a)) < (e.rmse + 1) * (e.rmse + 1) * Len(a)

WithReference ==
    /\ BenchDone
    /\ args.comparison_mode = "contra_analitica"
    /\ loc.analytic_fn

\* C16: in mode contra_analitica with an analytic solution, the reference has
\* one point per grid point at the methods' x values, sampled from the
\* analytic function, and vs_analytic holds for every requested method the
\* error summary of its trajectory against the reference.
C16_ReferenceAndSummaries ==
    WithReference =>
        LET ref == loc.analytic_solution
            mrs == loc.methods_results
        IN  /\ ref.some
            /\ Len(ref.ys) = Len(ref.xs)
            /\ \A i \in 1..Len(ref.xs) :
                  ref.ys[i] = Num(exp_growth_analytic(args.equation.f.lam, args.x0,
                                                      args.y0, ref.xs[i]))
            /\ loc.error_metrics.some /\ loc.error_metrics.has_vs
            /\ Len(mrs) = Len(args.methods)
            /\ \A m \in 1..Len(mrs) :
                  /\ mrs[m].name = args.methods[m]
                  /\ mrs[m].xs = ref.xs
                  /\ \E k \in 1..Len(loc.error_metrics.vs_analytic) :
                        /\ loc.error_metrics.vs_analytic[k].name = mrs[m].name
                        /\ IsSummaryOf(loc.error_metrics.vs_analytic[k].err,
                                       mrs[m].ys, ref.ys)

C16_Witness ==
    /\ WithReference
    /\ Len(loc.methods_results) = 2
    /\ loc.methods_results[1].name = "RK4" /\ loc.methods_results[2].name = "Euler"
    /\ Len(loc.error_metrics.vs_analytic) = 2
    /\ loc.error_metrics.vs_analytic[2].err.max > loc.error_metrics.vs_analytic[1].err.max

\* the result holds the error summary between the first two trajectories
HasBetweenMethods ==
    /\ loc.error_metrics.some
    /\ loc.error_metrics.between_methods.some
    /\ IsSummaryOf([max |-> loc.error_metrics.between_methods.max.v,
                    rmse |-> loc.error_metrics.between_methods.rmse.v],
                   loc.methods_results[1].ys, loc.methods_results[2].ys)

\* C17 as stated: whenever at least two methods were run the result holds the
\* error summary between the first and the second method's trajectories, with
\* or without a reference and in every comparison mode.
C17_BetweenMethodsAlways ==
    (BenchDone /\ Len(loc.methods_results) >= 2) => HasBetweenMethods

\* C17 amended: whenever at least two methods were run and the comparison mode
\* is contra_analitica or entre_metodos, the result holds the error summary
\* between the first and the second method's trajectories, with or without a
\* reference; in mode solo_numeric the result holds no error metrics.
C17_BetweenMethodsUnlessSoloNumeric ==
    BenchDone =>
        /\ (Len(loc.methods_results) >= 2 /\ args.comparison_mode # "solo_numeric")
              => HasBetweenMethods
        /\ args.comparison_mode = "solo_numeric" => ~loc.error_metrics.some

C17_Witness ==
    /\ BenchDone
    /\ args.comparison_mode = "entre_metodos"
    /\ ~loc.analytic_fn
    /\ Len(loc.methods_results) = 2
    /\ loc.methods_results[1].name # loc.methods_results[2].name
    /\ loc.error_metrics.between_methods.some
    /\ loc.error_metrics.between_methods.max.v > 0

\* the RMSE against the reference reported for the method called name
RmseVsReference(name) ==
    LET vs == loc.error_metrics.vs_analytic
    IN  vs[CHOOSE k \in 1..Len(vs) : vs[k].name = name].err.rmse

\* C18: when a reference exists, best_method is a requested method whose RMSE
\* against the reference is minimal, and every method requested before its
\* first occurrence has a strictly larger RMSE (the first of equals wins).
C18_BestIsFirstMinimalRmse ==
    (BenchDone /\ loc.error_metrics.has_vs) =>
        \E b \in 1..Len(args.methods) :
            /\ args.methods[b] = loc.error_metrics.best_method
            /\ \A i \in 1..Len(args.methods) :
                  /\ RmseVsReference(args.methods[i]) >= RmseVsReference(args.methods[b])
                  /\ i < b => RmseVsReference(args.methods[i])
                                  > RmseVsReference(args.methods[b])

\* Euler requested before RK4, both with the same RMSE: Euler is best
C18_Witness ==
    /\ BenchDone /\ loc.error_metrics.has_vs
    /\ args.methods = <<"Euler", "RK4">>
    /\ RmseVsReference("Euler") = RmseVsReference("RK4")
    /\ loc.error_metrics.best_method = "Euler"

\* RK4 when it is among the requested methods, else the first requested one
DefaultBest ==
    IF \E i \in 1..Len(args.methods) : args.methods[i] = "RK4" THEN "RK4"
    ELSE args.methods[1]

NamesDefaultBest ==
    /\ loc.error_metrics.some
    /\ loc.error_metrics.best_method = DefaultBest

\* C19 as stated: when the result has no reference and at least two methods
\* ran, best_method is "RK4" if RK4 was requested and else the first
\* requested method.
C19_DefaultBestWithoutReference ==
    (BenchDone /\ ~loc.analytic_solution.some /\ Len(loc.methods_results) >= 2)
        => NamesDefaultBest

\* C19 amended: when the comparison mode is entre_metodos, the result has no
\* reference and at least two methods ran, best_method is "RK4" if RK4 was
\* requested and else the first requested method; in mode solo_numeric no
\* best method is named.
C19_DefaultBestInEntreMetodos ==
    BenchDone =>
        /\ (args.comparison_mode = "entre_metodos" /\ ~loc.analytic_solution.some
               /\ Len(loc.methods_results) >= 2) => NamesDefaultBest
        /\ args.comparison_mode = "solo_numeric" =>
               (~loc.error_metrics.some /\ loc.error_metrics.best_method = "None")

\* RK4 requested second and named best without a reference
C19_Witness ==
    /\ BenchDone
    /\ args.comparison_mode = "entre_metodos"
    /\ ~loc.analytic_solution.some
    /\ args.methods = <<"Euler", "RK4">>
    /\ loc.error_metrics.best_method = "RK4"

---------------------------------------------------------------------------
(* Claims about requests in progress at once *)

\* what a compare request yields when it is processed alone
AloneMethod(name) ==
    LET r == IF name = "Euler"
             THEN euler_solve(args.equation.f, args.x0, args.y0, args.h, args.x_end)
             ELSE rk4_solve(args.equation.f, args.x0, args.y0, args.h, args.x_end)
    IN  [name |-> name, xs |-> r.xs, ys |-> r.ys,
         order |-> IF name = "Euler" THEN 1 ELSE 4, num_steps |-> Len(r.xs) - 1]

AloneResults == [i \in 1..Len(args.methods) |-> AloneMethod(args.methods[i])]

AloneErrorMetrics ==
    IF args.comparison_mode \in {"contra_analitica", "entre_metodos"}
       /\ args.equation.type = "predefined"
    THEN compare_with_analytic(AloneResults).error_metrics
    ELSE IF args.comparison_mode = "entre_metodos" /\ Len(args.methods) >= 2
    THEN compare_between_methods(AloneResults).error_metrics
    ELSE NoErrorMetrics

\* what a full solve yields when it is processed alone
AloneEuler == euler_solver(args.f, args.t0, args.y0, args.T, args.h)
AloneRK4 == rk4_solver(args.f, args.t0, args.y0, args.T, args.h)
AloneExact == analytic_solver(args.sol, args.t0, args.y0, args.T, args.h).exact_values

SameAsAlone ==
    /\ (Benchmark /\ pc = "done") =>
          /\ loc.methods_results = AloneResults
          /\ loc.error_metrics = AloneErrorMetrics
    /\ (FullSolve /\ pc = "done") =>
          /\ loc.grid_e = AloneEuler.grid
          /\ loc.y_euler = AloneEuler.ys
          /\ loc.y_rk4 = AloneRK4.ys
          /\ loc.exact_values = AloneExact
          /\ loc.errors_euler = absolute_errors(AloneEuler.ys, AloneExact).value
          /\ loc.errors_rk4 = absolute_errors(AloneRK4.ys, AloneExact).value
          /\ loc.metrics_euler = summary_error_metrics(AloneEuler.ys, AloneExact).value
          /\ loc.metrics_rk4 = summary_error_metrics(AloneRK4.ys, AloneExact).value

\* C20: of two requests whose steps interleave in any order, each finishes
\* with the trajectories, error summaries and best method it yields when
\* processed alone; and no step of a request changes its arguments or the
\* other request: args, which holds both, changes only when the turn passes.
C20_InterleavedAsAlone ==
    /\ []SameAsAlone
    /\ [][SwitchRequest \/ args' = args]_vars

\* a compare request has finished while a full solve, begun before, is still
\* between its integrators
C20_Witness ==
    /\ Benchmark /\ pc = "done"
    /\ Len(loc.methods_results) = 2
    /\ loc.error_metrics.some
    /\ args.parked.op = "_run_full_solve"
    /\ args.parked.pc \in {"rk4", "analytic"}

---------------------------------------------------------------------------
(* Claims about the integrators *)

InLoop(name) == op = name /\ pc \in {"loop", "done"}

\* C23: in euler_solver every completed step n is y[n+1] = y[n] + h_n * f(t_n, y[n])
\* with h_n = grid[n+1] - grid[n], the shortened last spacing included, and f
\* has been called exactly once per step, at (t_n, y[n]).
C23_EulerUpdateRule ==
    InLoop("euler_solver") =>
        /\ Len(loc.calls) = loc.k
        /\ Len(loc.ys) = loc.k + 1
        /\ \A n \in 1..loc.k :
              LET t_n == loc.grid[n]
                  h_n == loc.grid[n + 1] - loc.grid[n]
              IN  /\ loc.calls[n] = <<2 * t_n, loc.ys[n]>>
                  /\ loc.ys[n + 1] =
                        loc.ys[n] + StepMul(h_n, ApplyF(args.f_num, 2 * t_n, loc.ys[n]), 1)
        /\ pc = "done" => (loc.k = Len(loc.grid) - 1 /\ res.ys = Floats(loc.ys))

\* euler_solver has returned from a grid whose last step is shorter than h
C23_Witness ==
    /\ op = "euler_solver" /\ pc = "done"
    /\ Len(res.grid) >= 3
    /\ Last(res.grid) - res.grid[Len(res.grid) - 1] < args.h
    /\ args.f_num.lam # 0

\* C24: in rk4_solver every completed step n calls f at the four stage points
\* (t_n, y_n), (t_n + h_n/2, y_n + h_n*k1/2), (t_n + h_n/2, y_n + h_n*k2/2),
\* (t_n + h_n, y_n + h_n*k3), in this order, and sets
\* y[n+1] = y[n] + (h_n/6)(k1 + 2k2 + 2k3 + k4), with h_n = grid[n+1] - grid[n]
\* in all four stages, the shortened last spacing included.
C24_RK4Stages ==
    InLoop("rk4_solver") =>
        /\ Len(loc.calls) = 4 * loc.k
        /\ Len(loc.ys) = loc.k + 1
        /\ \A n \in 1..loc.k :
              LET t2 == 2 * loc.grid[n]
                  y_n == loc.ys[n]
                  h_n == loc.grid[n + 1] - loc.grid[n]
                  p2 == <<t2 + h_n, y_n + StepMul(h_n, ApplyF(args.f_num, t2, y_n), 2)>>
                  p3 == <<t2 + h_n, y_n + StepMul(h_n, ApplyF(args.f_num, p2[1], p2[2]), 2)>>
                  p4 == <<t2 + 2 * h_n,
                          y_n + StepMul(h_n, ApplyF(args.f_num, p3[1], p3[2]), 1)>>
                  k1 == ApplyF(args.f_num, t2, y_n)
                  k2 == ApplyF(args.f_num, p2[1], p2[2])
                  k3 == ApplyF(args.f_num, p3[1], p3[2])
                  k4 == ApplyF(args.f_num, p4[1], p4[2])
              IN  /\ SubSeq(loc.calls, 4 * n - 3, 4 * n) = << <<t2, y_n>>, p2, p3, p4 >>
                  /\ loc.ys[n + 1] = y_n + StepMul(h_n, k1 + 2 * k2 + 2 * k3 + k4, 6)
        /\ pc = "done" => (loc.k = Len(loc.grid) - 1 /\ res.ys = Floats(loc.ys))

\* rk4_solver has returned from a grid whose last step is shorter than h
C24_Witness ==
    /\ op = "rk4_solver" /\ pc = "done"
    /\ Len(res.grid) >= 3
    /\ Last(res.grid) - res.grid[Len(res.grid) - 1] < args.h
    /\ args.f_num.mu # 0

\* C25 as stated: an integrator's trajectory has one y per grid point after
\* every completed step and at return, and starts with y0.
C25_AlignedAfterEveryStep ==
    (op \in LoopOps /\ pc \in {"loop", "done"} /\ loc.k >= 1) =>
        /\ Len(loc.ys) = Len(loc.grid)
        /\ loc.ys[1] = args.y0

\* C25, amended: at return the trajectory has one y per grid point and starts
\* with y0; after every completed step euler_solve and rk4_solve hold as many
\* ys as xs, and euler_solver and rk4_solver, whose grid is built before the
\* loop, hold k + 1 values after k steps, one per grid point reached.
C25_AlignedAtReturn ==
    /\ (op \in LoopOps /\ pc = "done") =>
          /\ Len(res.ys) = Len(IF OnBuiltGrid THEN res.grid ELSE res.xs)
          /\ res.ys[1] = Num(args.y0)
    /\ (op \in LoopOps /\ pc \in {"loop", "done"}) =>
          /\ Len(loc.ys) = loc.k + 1
          /\ loc.ys[1] = args.y0
          /\ IF OnBuiltGrid THEN Len(loc.ys) <= Len(loc.grid)
             ELSE Len(loc.ys) = Len(loc.grid)

\* euler_solver between two steps: the grid is complete, the trajectory is not
C25_Witness ==
    /\ op = "euler_solver" /\ pc = "loop"
    /\ loc.k >= 1
    /\ Len(loc.ys) < Len(loc.grid)

\* the unit interval in ten steps: f = lam * y, T - t0 = 1, h = 0.1, y0 = 1
\* written to the given number of decimals
UnitInterval(lam, one) ==
    /\ op \in {"euler_solver", "rk4_solver"} /\ pc = "done"
    /\ args.f_num = [lam |-> lam, mu |-> 0, c |-> 0]
    /\ args.y0 = one
    /\ args.T - args.t0 = TimeUnit
    /\ 10 * args.h = TimeUnit

\* C21: for f = y, y0 = 1, T - t0 = 1, h = 0.1 the grid has 11 points, Euler
\* ends within 1e-3 of 2.5937 and RK4 within 1e-4 of e = 2.71828 (y in units
\* of 1e-6).
C21_UnitExponential ==
    UnitInterval(1, 1000000) =>
        /\ Len(res.grid) = 11
        /\ Len(res.ys) = 11
        /\ op = "euler_solver" => Abs(Last(res.ys).v - 2593700) <= 1000
        /\ op = "rk4_solver" => Abs(Last(res.ys).v - 2718282) <= 100

\* rk4_solver has returned for f = y on the unit interval
C21_Witness ==
    /\ UnitInterval(1, 1000000)
    /\ op = "rk4_solver"
    /\ Last(res.grid) = args.T

\* e^(-i/10) to eight decimals for i = 0..20: the exact solution of y' = -2y,
\* y(0) = 1 at the points i/20 of the unit interval
DecayExact ==
    << 100000000, 90483742, 81873075, 74081822, 67032005,
       60653066, 54881164, 49658530, 44932896, 40656966,
       36787944, 33287108, 30119421, 27253179, 24659696,
       22313016, 20189652, 18268352, 16529889, 14956862,
       13533528 >>

\* max |ys[i] - exact(t_i)| over a trajectory on every stride-th point of i/20
RECURSIVE MaxAbsError(_, _, _)
MaxAbsError(ys, stride, i) ==
    IF i > Len(ys) THEN 0
    ELSE LET e == Abs(ys[i].v - DecayExact[1 + stride * (i - 1)])
             m == MaxAbsError(ys, stride, i + 1)
         IN  IF e >= m THEN e ELSE m

\* the same integrator on the same problem with the step halved
HalvedStep ==
    IF op = "euler_solver"
    THEN euler_solver(args.f_num, args.t0, args.y0, args.T, args.h \div 2)
    ELSE rk4_solver(args.f_num, args.t0, args.y0, args.T, args.h \div 2)

\* C22: for y' = -2y, y(0) = 1 on the unit interval, halving h from 0.1 to
\* 0.05 divides the maximal absolute error against e^(-2t) by 2 within a
\* tenth for Euler (between 1.8 and 2.2) and by 16 within a quarter for RK4
\* (between 12 and 20); y in units of 1e-8.
C22_HalvingTheStep ==
    UnitInterval(-2, 100000000) =>
        LET coarse == MaxAbsError(res.ys, 2, 1)
            fine == MaxAbsError(HalvedStep.ys, 1, 1)
        IN  /\ Len(res.ys) = 11
            /\ HalvedStep.status = "ok"
            /\ Len(HalvedStep.ys) = 21
            /\ fine > 0
            /\ op = "euler_solver" => (18 * fine <= 10 * coarse /\ 10 * coarse <= 22 * fine)
            /\ op = "rk4_solver" => (12 * fine <= coarse /\ coarse <= 20 * fine)

\* euler_solver has returned for y' = -2y on the unit interval with h = 0.1
C22_Witness ==
    /\ UnitInterval(-2, 100000000)
    /\ op = "euler_solver"
    /\ Len(res.ys) = 11

---------------------------------------------------------------------------
(* Claims about the stages of solve_benchmark *)

\* the place of a stage in the order of the source; pc names the stage that
\* runs next
StageRank(p) ==
    CASE p = "request" -> 0
      [] p = "call" -> 1          \* domain validation
      [] p = "prepare" -> 2       \* acquisition of f
      [] p = "check_mode" -> 3    \* unsupported-comparison check
      [] p = "methods" -> 4       \* integration of the requested methods
      [] p = "compare" -> 5       \* reference and per-method summaries
      [] p = "between" -> 6       \* between-methods summary
      [] p = "best" -> 7          \* best-method selection
      [] p = "assemble" -> 8      \* result assembly
      [] OTHER -> 9

\* what has been computed tells which stages have run
StagesSoFar ==
    (Benchmark /\ pc # "failed") =>
        /\ StageRank(pc) >= 2 => args.x_end > args.x0
        /\ StageRank(pc) <= 2 => loc.stage = "start"
        /\ StageRank(pc) >= 3 => loc.f = args.equation.f
        /\ StageRank(pc) >= 4 =>
              ~(args.equation.type = "custom" /\ args.comparison_mode = "contra_analitica")
        /\ StageRank(pc) <= 3 => loc.methods_results = <<>>
        /\ StageRank(pc) >= 5 => Len(loc.methods_results) = Len(args.methods)
        /\ StageRank(pc) <= 5 => (~loc.analytic_solution.some /\ loc.vs_analytic = <<>>)
        /\ StageRank(pc) <= 6 => ~loc.between_methods.some
        /\ StageRank(pc) <= 7 => ~loc.error_metrics.some
        /\ StageRank(pc) <= 8 => res.http # 200
        /\ \A i \in 1..Len(loc.methods_results) :
              loc.methods_results[i].name = args.methods[i]

\* one step of the request: a later stage comes next, or the next requested
\* method is integrated, or the request fails with its locals as they were
StageStep ==
    Benchmark =>
        /\ pc \notin {"failed", "done"}
        /\ pc' = "failed" => (loc' = loc /\ res'.http # 200)
        /\ pc' # "failed" =>
              IF pc' = pc
              THEN /\ pc = "methods"
                   /\ Len(loc.methods_results) < Len(args.methods)
                   /\ Len(loc'.methods_results) = Len(loc.methods_results) + 1
                   /\ SubSeq(loc'.methods_results, 1, Len(loc.methods_results))
                         = loc.methods_results
              ELSE StageRank(pc') > StageRank(pc)
        /\ pc' = "done" => (pc = "assemble" /\ res'.http = 200)

\* C26: solve_benchmark runs domain validation, acquisition of f, the
\* unsupported-comparison check, the integration of each requested method in
\* request order, reference and per-method summaries, between-methods summary,
\* best-method selection and result assembly in this order, each at most once;
\* a failure is the request's last step, leaves the locals untouched and
\* returns no result.
C26_StagesInOrder == []StagesSoFar /\ [][StageStep]_vars

\* a request that has run every stage: two methods against the reference
C26_Witness ==
    /\ Benchmark /\ pc = "done"
    /\ Len(loc.methods_results) = 2
    /\ loc.analytic_solution.some
    /\ loc.between_methods.some
    /\ loc.error_metrics.best_method \in MethodNames

---------------------------------------------------------------------------
(* Claims about the two grid policies *)

\* the points t0 + i*h, i = 0..n
UniformGrid(t0, h, n) == [i \in 1..(n + 1) |-> t0 + (i - 1) * h]

\* (T - t0)/h is a positive integer whose size estimate is within max_points
WholeSteps(t0, T, h, max_points) ==
    /\ h > 0 /\ T > t0
    /\ (T - t0) % h = 0
    /\ n_estimated(t0, T, h) <= max_points

\* C27 as stated: when (T - t0)/h is a positive integer n within the cap,
\* build_time_grid and the round-based construction both yield the n + 1
\* points t0 + i*h, and euler_solver / euler_solve and rk4_solver / rk4_solve
\* return the same trajectory.
C27_GridPoliciesAgree ==
    /\ (GridCalled /\ WholeSteps(args.t0, args.T, args.h, args.max_points)) =>
          /\ res.status = "ok"
          /\ res.grid = UniformGrid(args.t0, args.h, (args.T - args.t0) \div args.h)
          /\ res.grid = _build_grid(args.t0, args.T, args.h).xs
    /\ (op \in {"euler_solver", "rk4_solver"} /\ pc \in {"done", "failed"}
            /\ WholeSteps(args.t0, args.T, args.h, DefaultMaxPoints)) =>
          LET round == IF op = "euler_solver"
                       THEN euler_solve(args.f_num, args.t0, args.y0, args.h, args.T)
                       ELSE rk4_solve(args.f_num, args.t0, args.y0, args.h, args.T)
          IN  /\ pc = "done"
              /\ res.grid = UniformGrid(args.t0, args.h, (args.T - args.t0) \div args.h)
              /\ res.grid = round.xs
              /\ res.ys = round.ys

---------------------------------------------------------------------------
(* Claims about requests without methods, the best method's reason and the
   bounds of a summary *)

\* a validated request over a valid domain and a usable equation that asks
\* for no method, after its last step; the comparison the service does not
\* support (C12) is left aside
EmptyMethodsRequest ==
    /\ Benchmark
    /\ args.methods = <<>>
    /\ args.h > 0 /\ args.x_end > args.x0
    /\ args.equation.kind \in {"exp_growth", "expression"}
    /\ ~(args.equation.type = "custom" /\ args.comparison_mode = "contra_analitica")
    /\ pc \in {"done", "failed"}

\* C28 as stated: a compare request with an empty methods list returns a
\* result with no method results and num_points = 0, in every comparison mode
\* and for every equation type; it does not fail.
C28_EmptyMethodsReturn ==
    EmptyMethodsRequest =>
        /\ pc = "done"
        /\ res.http = 200
        /\ loc.methods_results = <<>>
        /\ loc.num_points = 0

\* C29 as stated: whenever solve_benchmark reports error metrics, best_method
\* is one of the requested methods and best_method_reason names that method.
C29_ReasonNamesBest ==
    (Benchmark /\ pc = "done" /\ loc.error_metrics.some) =>
        /\ \E i \in 1..Len(args.methods) : loc.error_metrics.best_method = args.methods[i]
        /\ loc.error_metrics.best_method_reason = loc.error_metrics.best_method

\* C30 as stated: a summary with defined fields has 0 <= rmse <= max, and the
\* summary of a list against itself is max = 0, rmse = 0.
C30_RmseAtMostMax ==
    (op = "float_summary" /\ pc = "done" /\ IsNum(res.value.rmse)) =>
        /\ 0 <= res.value.rmse.v
        /\ res.value.rmse.v <= res.value.max.v
        /\ args.exact.list = args.approx =>
              (res.value.max.v = 0 /\ res.value.rmse.v = 0)

---------------------------------------------------------------------------
Init ==
    \/ InitGrid \/ InitRound \/ InitMetrics \/ InitFull \/ InitBench \/ InitLoop
    \/ InitFloat

Next ==
    \/ CallBuildTimeGrid \/ CallRound \/ CallMetrics \/ _run_full_solve \/ solve_benchmark
    \/ integrate \/ CallFloatSummary

Spec == Init /\ [][Next]_vars

=============================================================================
